---------------------------- MODULE Spec2Model ----------------------------
(***************************************************************************)
(* Crypto-Upgrade-Monitor: the forecasting and decision services.          *)
(*                                                                         *)
(*   VolatilityModelingService   (src/unnamed/part_002)                    *)
(*   LiquidityPredictionService  (src/src/services/liquidityPrediction.ts) *)
(*   ExecutionGuidanceService    (src/unnamed/part_001)                    *)
(*                                                                         *)
(* JavaScript numbers are IEEE-754 doubles.  They are modelled as decimal  *)
(* floating-point values m * 10^e with a four-digit mantissa, plus NaN and *)
(* the two infinities, with JavaScript's rules for them (x/0, NaN-         *)
(* propagating Math.max/Math.min, Math.sqrt of a negative, comparisons     *)
(* with NaN false).  The exponent range is the one of a double; only the   *)
(* precision is smaller (about 1e-4 relative instead of 1e-16), and zero   *)
(* carries no sign.  Risk scores and clock readings are whole numbers, and *)
(* the portfolio weights are exact fractions.                              *)
(***************************************************************************)
EXTENDS Integers, Sequences, FiniteSets, TLC

VARIABLES
    now,        \* the wall clock, Date.now(), in ms since the model's epoch
    vol,        \* the current call of predictVolatility and its outcome
    liq,        \* the current call of predictLiquidityFlow and its outcome
    flow,       \* determineFlowDirection applied on its own
    consistency, \* calculateRiskConsistency applied on its own
    rebalance,  \* generateRebalancingRecommendations applied on its own
    volConfidence, \* the confidence of generateVolatilityPredictions on its own
    eventForecast, \* generateVolatilityPredictions with and without an event
    calls,      \* calls of the three services in progress at the same time
    guide,      \* the current call of generateExecutionGuidance and its outcome
    prevGuide,  \* the inputs and the answer of the call this one repeats
    crossFlows, \* the current call of analyzeCrossProtocolFlows and its outcome
    feeds,      \* the live-event list and the alert list of the panels
    socket,     \* the connection of useWebSocket, its timer and its counter
    app         \* the configuration held by App and by the NetworkMonitor panel

vars ==
    <<now, vol, liq, flow, consistency, rebalance, volConfidence,
      eventForecast, calls, guide, prevGuide,
     crossFlows, feeds, socket, app>>

---------------------------------------------------------------------------
(* JavaScript numbers                                                      *)

MantLo == 10^3
MantHi == 10^4

NaN == [k |-> "nan", m |-> 0, e |-> 0]
Inf(s) == [k |-> "inf", m |-> s, e |-> 0]
Zero == [k |-> "fin", m |-> 0, e |-> 0]

Sgn(x) == IF x > 0 THEN 1 ELSE IF x < 0 THEN -1 ELSE 0
Abs(x) == IF x < 0 THEN -x ELSE x

NumDigits(n) ==
    IF n < 10 THEN 1 ELSE IF n < 100 THEN 2 ELSE IF n < 1000 THEN 3
    ELSE IF n < 10000 THEN 4 ELSE IF n < 100000 THEN 5
    ELSE IF n < 1000000 THEN 6 ELSE IF n < 10000000 THEN 7
    ELSE IF n < 100000000 THEN 8 ELSE IF n < 1000000000 THEN 9 ELSE 10

\* A finite value from a four-digit mantissa: overflow to an infinity,
\* underflow to zero.
Pack(m, e) ==
    IF e > 305 THEN Inf(Sgn(m))
    ELSE IF e < -327 THEN Zero
    ELSE [k |-> "fin", m |-> m, e |-> e]
NormCarry(s, q0, e) ==
    IF q0 = MantHi THEN Pack(s * MantLo, e + 1) ELSE Pack(s * q0, e)
NormShift(s, a, sh, e) ==
    NormCarry(s,
        IF sh > 0 THEN (a + (10^sh) \div 2) \div (10^sh) ELSE a * 10^(0 - sh),
        e + sh)
\* The double nearest to m * 10^e: the mantissa rounded to four digits.
Norm(m, e) ==
    IF m = 0 THEN Zero
    ELSE NormShift(Sgn(m), Abs(m), NumDigits(Abs(m)) - 4, e)

\* A literal: F(85, -2) is 0.85.
F(m, e) == Norm(m, e)
Num(n) == Norm(n, 0)

IsNaN(a) == a.k = "nan"
IsFinite(a) == a.k = "fin"
FSign(a) == IF a.k = "nan" THEN 0 ELSE Sgn(a.m)
FNeg(a) == IF a.k = "nan" THEN a ELSE [a EXCEPT !.m = 0 - a.m]
FAbs(a) == IF a.k = "nan" THEN a ELSE [a EXCEPT !.m = Abs(a.m)]

FMul(a, b) ==
    IF IsNaN(a) \/ IsNaN(b) THEN NaN
    ELSE IF a.k = "inf" \/ b.k = "inf"
         THEN (IF FSign(a) * FSign(b) = 0 THEN NaN ELSE Inf(FSign(a) * FSign(b)))
    ELSE Norm(a.m * b.m, a.e + b.e)

FDiv(a, b) ==
    IF IsNaN(a) \/ IsNaN(b) THEN NaN
    ELSE IF a.k = "inf"
         THEN (IF b.k = "inf" THEN NaN
               ELSE Inf(a.m * (IF b.m >= 0 THEN 1 ELSE -1)))
    ELSE IF b.k = "inf" THEN Zero
    ELSE IF b.m = 0 THEN (IF a.m = 0 THEN NaN ELSE Inf(Sgn(a.m)))
    ELSE IF a.m = 0 THEN Zero
    ELSE Norm(Sgn(a.m) * Sgn(b.m) * ((Abs(a.m) * 10^5) \div Abs(b.m)),
              a.e - b.e - 5)

FAdd(a, b) ==
    IF IsNaN(a) \/ IsNaN(b) THEN NaN
    ELSE IF a.k = "inf"
         THEN (IF b.k = "inf" /\ a.m # b.m THEN NaN ELSE a)
    ELSE IF b.k = "inf" THEN b
    ELSE IF a.m = 0 THEN b
    ELSE IF b.m = 0 THEN a
    ELSE IF a.e - b.e > 5 THEN a
    ELSE IF b.e - a.e > 5 THEN b
    ELSE IF a.e < b.e THEN Norm(a.m + b.m * 10^(b.e - a.e), a.e)
    ELSE Norm(a.m * 10^(a.e - b.e) + b.m, b.e)

FSub(a, b) == FAdd(a, FNeg(b))

\* a < b, a > b, a >= b: false as soon as one side is NaN.
FLt(a, b) ==
    IF IsNaN(a) \/ IsNaN(b) THEN FALSE
    ELSE IF a.k = "inf" THEN a.m < 0 /\ ~(b.k = "inf" /\ b.m < 0)
    ELSE IF b.k = "inf" THEN b.m > 0
    ELSE IF a.m = 0 \/ b.m = 0 \/ Sgn(a.m) # Sgn(b.m) THEN a.m < b.m
    ELSE IF a.e = b.e THEN a.m < b.m
    ELSE IF a.m > 0 THEN a.e < b.e
    ELSE a.e > b.e
FGt(a, b) == FLt(b, a)
FGe(a, b) == ~IsNaN(a) /\ ~IsNaN(b) /\ ~FLt(a, b)
FLe(a, b) == FGe(b, a)

\* Math.max and Math.min: NaN if either argument is NaN.
FMax(a, b) == IF IsNaN(a) \/ IsNaN(b) THEN NaN ELSE IF FLt(a, b) THEN b ELSE a
FMin(a, b) == IF IsNaN(a) \/ IsNaN(b) THEN NaN ELSE IF FLt(b, a) THEN b ELSE a

FSq(a) == FMul(a, a)

RECURSIVE ISqrtFrom(_, _)
ISqrtFrom(n, x) ==
    IF (x + n \div x) \div 2 >= x THEN x
    ELSE ISqrtFrom(n, (x + n \div x) \div 2)
ISqrt(n) == IF n < 2 THEN n ELSE ISqrtFrom(n, 65536)

\* Math.sqrt
FSqrt(a) ==
    IF IsNaN(a) THEN NaN
    ELSE IF a.m < 0 THEN NaN
    ELSE IF a.k = "inf" THEN a
    ELSE IF a.m = 0 THEN Zero
    ELSE IF a.e % 2 = 0 THEN Norm(ISqrt(a.m * 10^4), (a.e - 4) \div 2)
    ELSE Norm(ISqrt(a.m * 10^5), (a.e - 5) \div 2)

\* Math.log: x = 2^n * y with 1 <= y < 2, ln y = 2 atanh((y-1)/(y+1)).
LnSeries(z, z2, n) ==
    FAdd(FMul(FMul(Num(2), z),
              FAdd(Num(1), FMul(z2, FAdd(FDiv(Num(1), Num(3)),
                  FMul(z2, FAdd(FDiv(Num(1), Num(5)),
                      FMul(z2, FDiv(Num(1), Num(7))))))))),
         FMul(Num(n), F(6931, -4)))
LnAtanh(z, n) == LnSeries(z, FMul(z, z), n)
RECURSIVE LnReduced(_, _)
LnReduced(x, n) ==
    IF FGe(x, Num(2)) THEN LnReduced(FDiv(x, Num(2)), n + 1)
    ELSE LnAtanh(FDiv(FSub(x, Num(1)), FAdd(x, Num(1))), n)
FLn(a) ==
    IF IsNaN(a) \/ a.m < 0 THEN NaN
    ELSE IF a.k = "inf" THEN a
    ELSE IF a.m = 0 THEN Inf(-1)
    ELSE FAdd(LnReduced([k |-> "fin", m |-> a.m, e |-> -3], 0),
              FMul(Num(a.e + 3), F(2303, -3)))

\* Math.pow(a, n) for an integer n >= 0
FPowStep(h2, a, n) == IF n % 2 = 1 THEN FMul(h2, a) ELSE h2
RECURSIVE FPow(_, _)
FPow(a, n) ==
    IF n = 0 THEN Num(1)
    ELSE FPowStep(FSq(FPow(a, n \div 2)), a, n)

RECURSIVE FSumFrom(_, _, _)
FSumFrom(s, i, acc) ==
    IF i > Len(s) THEN acc ELSE FSumFrom(s, i + 1, FAdd(acc, s[i]))
\* values.reduce((sum, val) => sum + val, 0)
FSum(s) == FSumFrom(s, 1, Zero)

\* An argument that may be undefined: Undefined, or Def(x).
Undefined == [def |-> FALSE, v |-> <<>>]
Def(x) == [def |-> TRUE, v |-> x]

---------------------------------------------------------------------------
(* VolatilityModelingService                                               *)

\* The largest length of a price history in the model.
MaxPrices == 3
\* The prices a history is drawn from; 0 is not a price, but it is a number
\* a caller can pass.
PriceSet == {Num(0), Num(1), Num(100), Num(10000)}
PriceHistories ==
    {Undefined} \cup
    {Def(h) : h \in UNION {[1..n -> PriceSet] : n \in 0..MaxPrices}}
\* upgradeEvent: absent, or an event with a riskScore (0..100).
EventRiskScores == {0, 50, 100}
UpgradeEvents ==
    {Undefined} \cup
    {Def([type |-> t, riskScore |-> Num(r)]) :
        t \in {"governance", "implementation", "parameter"},
        r \in EventRiskScores}
\* predictVolatility reads only the riskScore of its event.
VolUpgradeEvents ==
    {ev \in UpgradeEvents : ev.def => ev.v.type = "governance"}
\* What Math.random() may return, in [0, 1).
RandomDraws == {Zero, F(9999, -4)}

calculateReturns(prices) ==
    [i \in 1..(Len(prices) - 1) |-> FLn(FDiv(prices[i + 1], prices[i]))]

SquaredDeviations(values, mean) ==
    [i \in 1..Len(values) |-> FSq(FSub(values[i], mean))]
calculateVariance(values) ==
    FDiv(FSum(SquaredDeviations(values,
                                FDiv(FSum(values), Num(Len(values))))),
         Num(Len(values) - 1))

\* One pass of the loop body of calculateGARCHGradient, with r2 the square
\* of returns[i - 1].
GradientAdd(acc, r2, prevVariance, variance, residual) ==
    [variance |-> variance,
     gradAlpha |-> FAdd(acc.gradAlpha, FDiv(FMul(residual, r2), variance)),
     gradBeta |-> FAdd(acc.gradBeta,
                       FDiv(FMul(residual, prevVariance), variance)),
     gradOmega |-> FAdd(acc.gradOmega, FDiv(residual, variance))]
GradientResidual(acc, r2, r2next, variance) ==
    GradientAdd(acc, r2, acc.variance, variance, FSub(r2next, variance))
GradientBody(acc, alpha, beta, omega, r2, r2next) ==
    GradientResidual(acc, r2, r2next,
        FAdd(FAdd(omega, FMul(alpha, r2)), FMul(beta, acc.variance)))
\* The loop of calculateGARCHGradient from index i (0-based, as in the
\* source) on; acc holds variance and the three running sums.
RECURSIVE GradientLoop(_, _, _, _, _, _)
GradientLoop(returns, alpha, beta, omega, i, acc) ==
    IF i >= Len(returns) THEN acc
    ELSE GradientLoop(returns, alpha, beta, omega, i + 1,
             GradientBody(acc, alpha, beta, omega,
                          FSq(returns[i]), FSq(returns[i + 1])))

GradientMean(acc, n) ==
    [alpha |-> FDiv(FNeg(acc.gradAlpha), n),
     beta |-> FDiv(FNeg(acc.gradBeta), n),
     omega |-> FDiv(FNeg(acc.gradOmega), n)]
calculateGARCHGradient(returns, alpha, beta, omega) ==
    GradientMean(
        GradientLoop(returns, alpha, beta, omega, 1,
            [variance |-> FDiv(omega, FSub(FSub(Num(1), alpha), beta)),
             gradAlpha |-> Zero, gradBeta |-> Zero, gradOmega |-> Zero]),
        Num(Len(returns)))

learningRate == F(1, -3)

GradientStep(alpha, beta, omega, gradient) ==
    [alpha |-> FMax(F(1, -2), FMin(F(99, -2),
                  FSub(alpha, FMul(learningRate, gradient.alpha)))),
     beta |-> FMax(F(1, -2), FMin(F(99, -2),
                  FSub(beta, FMul(learningRate, gradient.beta)))),
     omega |-> FMax(F(1, -3),
                  FSub(omega, FMul(learningRate, gradient.omega)))]
optimizeGARCH(returns, alpha, beta, omega) ==
    GradientStep(alpha, beta, omega,
                 calculateGARCHGradient(returns, alpha, beta, omega))

\* The number of refinement steps of fitGARCH.
FitIterations == 100

\* fitGARCH before its loop: the method-of-moments seed.
fitGARCHSeed(returns) ==
    [alpha |-> F(1, -1), beta |-> F(85, -2),
     omega |-> FMul(calculateVariance(returns),
                    FSub(FSub(Num(1), F(1, -1)), F(85, -2)))]

\* The EWMA loop of calculateCurrentVolatility from index i (0-based) on.
RECURSIVE EwmaLoop(_, _, _)
EwmaLoop(returns, i, variance) ==
    IF i >= Len(returns) THEN variance
    ELSE EwmaLoop(returns, i + 1,
             IF i >= 0
             THEN FAdd(FMul(F(94, -2), variance),
                       FMul(FSub(Num(1), F(94, -2)), FSq(returns[i + 1])))
             ELSE variance)

calculateCurrentVolatility(returns) ==
    FSqrt(EwmaLoop(returns, Len(returns) - 20, calculateVariance(returns)))

\* The multiplier with the whole risk score added.  Property C20 tells it
\* from eventMultiplier.
eventMultiplierWhole(upgradeEvent) ==
    IF upgradeEvent.def
    THEN FAdd(Num(1), FDiv(upgradeEvent.v.riskScore, Num(100)))
    ELSE Num(1)
\* let eventMultiplier = 1; if (upgradeEvent) eventMultiplier = 1 + ... * 0.5
eventMultiplier(upgradeEvent) ==
    IF upgradeEvent.def
    THEN FAdd(Num(1), FMul(FDiv(upgradeEvent.v.riskScore, Num(100)), F(5, -1)))
    ELSE Num(1)

\* The confidence without Math.abs.  Property C15 tells it from
\* predictionConfidence.
predictionConfidenceSigned(ab) ==
    FMax(F(5, -1), FSub(Num(1), FSub(ab, F(95, -2))))
\* Math.max(0.5, 1 - Math.abs(alpha + beta - 0.95)), with ab = alpha + beta
predictionConfidence(ab) ==
    FMax(F(5, -1), FSub(Num(1), FAbs(FSub(ab, F(95, -2)))))

\* The body of generateVolatilityPredictions, with c2 = current ** 2 and
\* ab = alpha + beta.
VolatilityForecasts(alpha, beta, omega, longRunVariance, mult, c2, ab) ==
    [h1 |-> FMul(FSqrt(FAdd(FAdd(omega, FMul(alpha, c2)), FMul(beta, c2))),
                 mult),
     d1 |-> FMul(FSqrt(FAdd(FAdd(omega, FMul(ab, c2)),
                   FMul(FDiv(FSub(Num(1), FPow(ab, 24)), FSub(Num(1), ab)),
                        FSub(longRunVariance, c2)))), mult),
     d7 |-> FMul(FSqrt(FAdd(longRunVariance,
                   FMul(FPow(ab, 7 * 24), FSub(c2, longRunVariance)))), mult),
     confidence |-> predictionConfidence(ab)]
generateVolatilityPredictions(current, garchParams, upgradeEvent) ==
    VolatilityForecasts(garchParams.alpha, garchParams.beta, garchParams.omega,
        FDiv(garchParams.omega,
             FSub(FSub(Num(1), garchParams.alpha), garchParams.beta)),
        eventMultiplier(upgradeEvent), FSq(current),
        FAdd(garchParams.alpha, garchParams.beta))

NoParams == [alpha |-> Zero, beta |-> Zero, omega |-> Zero]
NoVolPrediction ==
    [current |-> Zero, predicted1h |-> Zero, predicted24h |-> Zero,
     predicted7d |-> Zero, confidence |-> Zero, garchParams |-> NoParams]

\* No call of predictVolatility is running.  threw: an exception was raised
\* inside the try block; settled: how the promise ended; error: what it was
\* rejected with; origin: the block that built the result.
VolIdle ==
    [phase |-> "idle", prices |-> Undefined, event |-> Undefined,
     returns |-> <<>>, params |-> NoParams, iter |-> 0,
     threw |-> FALSE, settled |-> "none", error |-> "none", origin |-> "none",
     result |-> NoVolPrediction]

\* predictVolatility(historicalPrices, upgradeEvent) up to the loop of
\* fitGARCH.  calculateReturns reads prices.length, a TypeError when the
\* history is undefined: the catch block then answers with a record made
\* of Math.random() draws, and the promise is fulfilled with it.
PredictVolatilityCall ==
    /\ vol.phase = "idle"
    /\ \E prices \in PriceHistories, ev \in VolUpgradeEvents :
         IF ~prices.def
         THEN \E r \in [1..8 -> RandomDraws] :
                vol' = [VolIdle EXCEPT
                    !.phase = "returned", !.prices = prices, !.event = ev,
                    !.threw = TRUE, !.settled = "fulfilled",
                    !.origin = "random",
                    !.result =
                      [current |-> FAdd(FMul(r[1], F(5, -1)), F(1, -1)),
                       predicted1h |-> FAdd(FMul(r[2], F(6, -1)), F(1, -1)),
                       predicted24h |-> FAdd(FMul(r[3], F(8, -1)), F(2, -1)),
                       predicted7d |-> FAdd(FMul(r[4], Num(1)), F(3, -1)),
                       confidence |-> FAdd(FMul(r[5], F(4, -1)), F(6, -1)),
                       garchParams |->
                         [alpha |-> FAdd(FMul(r[6], F(1, -1)), F(5, -2)),
                          beta |-> FAdd(FMul(r[7], F(3, -1)), F(7, -1)),
                          omega |-> FAdd(FMul(r[8], F(1, -2)), F(5, -3))]]]
         ELSE \E returns \in {calculateReturns(prices.v)} :
                vol' = [VolIdle EXCEPT
                    !.phase = "fitting", !.prices = prices, !.event = ev,
                    !.returns = returns,
                    !.params = fitGARCHSeed(returns)]
    /\ UNCHANGED <<crossFlows, feeds, socket, app, volConfidence, eventForecast, calls, now, liq, flow, consistency, rebalance, guide, prevGuide>>

\* One iteration of the loop of fitGARCH.
FitStep ==
    /\ vol.phase = "fitting"
    /\ vol.iter < FitIterations
    /\ vol' = [vol EXCEPT
           !.params = optimizeGARCH(vol.returns, vol.params.alpha,
                                    vol.params.beta, vol.params.omega),
           !.iter = vol.iter + 1]
    /\ UNCHANGED <<crossFlows, feeds, socket, app, volConfidence, eventForecast, calls, now, liq, flow, consistency, rebalance, guide, prevGuide>>

\* predictVolatility after the loop of fitGARCH: the current volatility, the
\* horizon forecasts, and the record the promise is fulfilled with.
PredictVolatilityReturn ==
    /\ vol.phase = "fitting"
    /\ vol.iter >= FitIterations
    /\ \E currentVolatility \in {calculateCurrentVolatility(vol.returns)} :
       \E predictions \in {generateVolatilityPredictions(currentVolatility,
                                vol.params, vol.event)} :
           vol' = [vol EXCEPT
               !.phase = "returned", !.settled = "fulfilled",
               !.origin = "computed",
               !.result =
                 [current |-> currentVolatility,
                  predicted1h |-> predictions.h1,
                  predicted24h |-> predictions.d1,
                  predicted7d |-> predictions.d7,
                  confidence |-> predictions.confidence,
                  garchParams |-> vol.params]]
    /\ UNCHANGED <<crossFlows, feeds, socket, app, volConfidence, eventForecast, calls, now, liq, flow, consistency, rebalance, guide, prevGuide>>

\* The caller has taken the result; the service is ready for the next call.
VolDone ==
    /\ vol.phase = "returned"
    /\ vol' = VolIdle
    /\ UNCHANGED <<crossFlows, feeds, socket, app, volConfidence, eventForecast, calls, now, liq, flow, consistency, rebalance, guide, prevGuide>>

---------------------------------------------------------------------------
(* LiquidityPredictionService                                              *)

\* The largest length of a TVL history in the model.
MaxTvlPoints == 3
\* The TVL values a history is drawn from.
TvlSet == {Num(1000), Num(1100)}
TvlHistories ==
    {Undefined} \cup
    {Def([i \in 1..Len(h) |-> [timestamp |-> i, tvl |-> h[i]]]) :
        h \in UNION {[1..n -> TvlSet] : n \in 0..MaxTvlPoints}}
\* new Date().getHours() and new Date().getDay() at the time of the call.
Hours == {7, 8, 20, 21}
Days == {0, 1, 5, 6}

\* data.reduce((sum, d, i) => sum + ..., 0), with i 0-based
SumX(data) == FSum([i \in 1..Len(data) |-> Num(i - 1)])
SumY(data) == FSum([i \in 1..Len(data) |-> data[i].tvl])
SumXY(data) == FSum([i \in 1..Len(data) |-> FMul(Num(i - 1), data[i].tvl)])
SumXX(data) == FSum([i \in 1..Len(data) |-> Num((i - 1) * (i - 1))])

Slope(n, sumX, sumY, sumXY, sumXX) ==
    FDiv(FSub(FMul(n, sumXY), FMul(sumX, sumY)),
         FSub(FMul(n, sumXX), FMul(sumX, sumX)))
calculateTrend(data) ==
    IF Len(data) < 2 THEN Zero
    ELSE Slope(Num(Len(data)), SumX(data), SumY(data), SumXY(data),
               SumXX(data))

\* No seasonality at all.  Property C30 tells it from calculateSeasonality.
calculateSeasonalityNone(hourOfDay, dayOfWeek) == Num(1)
calculateSeasonality(hourOfDay, dayOfWeek) ==
    FMul(IF hourOfDay >= 8 /\ hourOfDay <= 20 THEN F(11, -1) ELSE F(9, -1),
         IF dayOfWeek >= 1 /\ dayOfWeek <= 5 THEN F(105, -2) ELSE F(95, -2))

TvlReturns(data) ==
    [i \in 1..(Len(data) - 1) |->
        FDiv(FSub(data[i + 1].tvl, data[i].tvl), data[i].tvl)]
\* The mean and the variance over n - 1 are computed as in calculateVariance.
calculateTVLVolatility(data) ==
    IF Len(data) < 2 THEN F(1, -2)
    ELSE FSqrt(calculateVariance(TvlReturns(data)))

typeMultiplier(type) ==
    IF type = "governance" THEN F(95, -2)
    ELSE IF type = "implementation" THEN F(85, -2)
    ELSE IF type = "parameter" THEN F(105, -2)
    ELSE Num(1)
calculateEventImpact(upgradeEvent) ==
    FMul(typeMultiplier(upgradeEvent.type),
         FSub(Num(1), FMul(FDiv(upgradeEvent.riskScore, Num(100)), F(2, -1))))

\* (Math.random() - 0.5) * volatility
randomComponent(r, volatility) == FMul(FSub(r, F(5, -1)), volatility)

\* generateTVLPredictions; r holds the three draws of Math.random().
generateTVLPredictions(currentTVL, trend, seasonality, volatility, eventImpact, r) ==
    [h1 |-> FMul(FMul(FMul(currentTVL,
                FAdd(FAdd(Num(1), FMul(trend, FDiv(FDiv(Num(1), Num(24)), Num(365)))),
                     randomComponent(r[1], volatility))),
                seasonality), eventImpact),
     d1 |-> FMul(FMul(FMul(currentTVL,
                FAdd(FAdd(Num(1), FMul(trend, FDiv(Num(1), Num(365)))),
                     FMul(randomComponent(r[2], volatility), FSqrt(Num(24))))),
                seasonality), eventImpact),
     d7 |-> FMul(FMul(FMul(currentTVL,
                FAdd(FAdd(Num(1), FMul(trend, FDiv(Num(7), Num(365)))),
                     FMul(randomComponent(r[3], volatility),
                          FSqrt(Num(7 * 24))))),
                seasonality), eventImpact),
     confidence |-> FMax(F(4, -1), FSub(Num(1), FMul(volatility, Num(10))))]

\* The classification with the thresholds included.  Property C9 tells it
\* from FlowOf.
FlowOfInclusive(change) ==
    IF FGe(change, F(1, -2)) THEN "inflow"
    ELSE IF FLe(change, F(-1, -2)) THEN "outflow"
    ELSE "stable"
\* if (change > 0.01) ... if (change < -0.01) ... return 'stable'
FlowOf(change) ==
    IF FGt(change, F(1, -2)) THEN "inflow"
    ELSE IF FLt(change, F(-1, -2)) THEN "outflow"
    ELSE "stable"
determineFlowDirection(predicted, current) ==
    FlowOf(FDiv(FSub(predicted, current), current))

\* The last value without the default: undefined, not a number in the
\* arithmetic that follows, when the history is empty.  Property C21 tells
\* it from LastTvl.
LastTvlNoDefault(data) ==
    IF Len(data) = 0 THEN NaN ELSE data[Len(data)].tvl
\* historicalTVL[historicalTVL.length - 1]?.tvl || 0
LastTvl(data) ==
    IF Len(data) = 0 THEN Zero
    ELSE IF IsNaN(data[Len(data)].tvl) THEN Zero
    ELSE data[Len(data)].tvl

NoLiqPrediction ==
    [currentTVL |-> Zero, predictedTVL1h |-> Zero, predictedTVL24h |-> Zero,
     predictedTVL7d |-> Zero, flowDirection |-> "none", confidence |-> Zero]

\* No call of predictLiquidityFlow is running.
LiqIdle ==
    [phase |-> "idle", history |-> Undefined, event |-> Undefined,
     hourOfDay |-> 0, dayOfWeek |-> 0, volatility |-> Zero, seasonality |-> Zero,
     threw |-> FALSE, settled |-> "none", error |-> "none", origin |-> "none",
     result |-> NoLiqPrediction]

LiqResult(currentTVL, predictions) ==
    [currentTVL |-> currentTVL,
     predictedTVL1h |-> predictions.h1,
     predictedTVL24h |-> predictions.d1,
     predictedTVL7d |-> predictions.d7,
     flowDirection |-> determineFlowDirection(predictions.h1, currentTVL),
     confidence |-> predictions.confidence]

\* The record the catch block of predictLiquidityFlow builds from six draws
\* of Math.random().
MockLiqResult(currentTVL, r) ==
    [currentTVL |-> currentTVL,
     predictedTVL1h |->
        FMul(currentTVL, FAdd(Num(1), FMul(FSub(r[2], F(5, -1)), F(2, -2)))),
     predictedTVL24h |->
        FMul(currentTVL, FAdd(Num(1), FMul(FSub(r[3], F(5, -1)), F(1, -1)))),
     predictedTVL7d |->
        FMul(currentTVL, FAdd(Num(1), FMul(FSub(r[4], F(5, -1)), F(3, -1)))),
     flowDirection |-> IF FGt(r[5], F(5, -1)) THEN "inflow" ELSE "outflow",
     confidence |-> FAdd(FMul(r[6], F(3, -1)), F(7, -1))]

\* predictLiquidityFlow(historicalTVL, upgradeEvent).  Reading
\* historicalTVL.length is a TypeError when the history is undefined: the
\* catch block then answers with a record made of Math.random() draws, and
\* the promise is fulfilled with it.
PredictLiquidityFlow ==
    /\ liq.phase = "idle"
    /\ \E history \in TvlHistories, ev \in UpgradeEvents :
         IF ~history.def
         THEN \E r \in [1..6 -> RandomDraws] :
                liq' = [LiqIdle EXCEPT
                    !.phase = "returned", !.history = history, !.event = ev,
                    !.threw = TRUE, !.settled = "fulfilled",
                    !.origin = "random",
                    !.result = MockLiqResult(FMul(r[1], F(1, 9)), r)]
         ELSE \E currentTVL \in {LastTvl(history.v)},
                 trend \in {calculateTrend(history.v)},
                 volatility \in {calculateTVLVolatility(history.v)},
                 eventImpact \in {IF ev.def THEN calculateEventImpact(ev.v)
                                  ELSE Num(1)} :
              \E hourOfDay \in Hours, dayOfWeek \in Days :
              \E seasonality \in {calculateSeasonality(hourOfDay, dayOfWeek)},
                 r \in [1..3 -> RandomDraws] :
                liq' = [LiqIdle EXCEPT
                    !.phase = "returned", !.history = history, !.event = ev,
                    !.hourOfDay = hourOfDay, !.dayOfWeek = dayOfWeek,
                    !.volatility = volatility, !.seasonality = seasonality,
                    !.settled = "fulfilled", !.origin = "computed",
                    !.result = LiqResult(currentTVL,
                        generateTVLPredictions(currentTVL, trend, seasonality,
                            volatility, eventImpact, r))]
    /\ UNCHANGED <<crossFlows, feeds, socket, app, volConfidence, eventForecast, calls, now, vol, flow, consistency, rebalance, guide, prevGuide>>

\* The caller has taken the result; the service is ready for the next call.
LiqDone ==
    /\ liq.phase = "returned"
    /\ liq' = LiqIdle
    /\ UNCHANGED <<crossFlows, feeds, socket, app, volConfidence, eventForecast, calls, now, vol, flow, consistency, rebalance, guide, prevGuide>>

\* determineFlowDirection on its own: the values it is applied to.
FlowCurrents == {1, 7, 50, 300, 1000, 2000}
FlowPredicted ==
    {0, 1, 2, 7, 49, 50, 51, 296, 297, 298, 300, 302, 303, 304, 980, 989,
     990, 991, 1000, 1005, 1009, 1010, 1011, 1020, 1980, 2000, 2020, 2021}

FlowIdle == [phase |-> "idle", predicted |-> 0, current |-> 0, result |-> "none"]

DetermineFlowDirection ==
    /\ flow.phase = "idle"
    /\ \E predicted \in FlowPredicted, current \in FlowCurrents :
         flow' = [phase |-> "returned", predicted |-> predicted,
                  current |-> current,
                  result |-> determineFlowDirection(Num(predicted), Num(current))]
    /\ UNCHANGED <<crossFlows, feeds, socket, app, volConfidence, eventForecast, calls, now, vol, liq, consistency, rebalance, guide, prevGuide>>

FlowDone ==
    /\ flow.phase = "returned"
    /\ flow' = FlowIdle
    /\ UNCHANGED <<crossFlows, feeds, socket, app, volConfidence, eventForecast, calls, now, vol, liq, consistency, rebalance, guide, prevGuide>>

---------------------------------------------------------------------------
(* ExecutionGuidanceService                                                *)

\* Exact fractions n/d, d > 0, in lowest terms: the portfolio weights.
RECURSIVE GCD(_, _)
GCD(a, b) == IF b = 0 THEN a ELSE GCD(b, a % b)
RatReduce(n, d, g) == [n |-> n \div g, d |-> d \div g]
Rat(n, d) == RatReduce(n, d, GCD(Abs(n), d))
RatAdd(a, b) == Rat(a.n * b.d + b.n * a.d, a.d * b.d)
RatMul(a, b) == Rat(a.n * b.n, a.d * b.d)
RatDiv(a, b) == Rat(a.n * b.d, a.d * b.n)
RatLe(a, b) == a.n * b.d <= b.n * a.d
RatMin(a, b) == IF RatLe(a, b) THEN a ELSE b
RatMax(a, b) == IF RatLe(a, b) THEN b ELSE a

\* if (riskAssessment.overall < 30) ... else if (riskAssessment.overall > 70)
\* A score that ignores the overall risk.  Property C25 tells it from
\* RiskImpact.
RiskImpactIgnored(riskAssessment) == 0
RiskImpact(riskAssessment) ==
    IF riskAssessment.overall < 30 THEN 2
    ELSE IF riskAssessment.overall > 70 THEN -2
    ELSE 0
VolatilityImpact(volatilityPrediction) ==
    IF FGt(volatilityPrediction.predicted24h,
           FMul(volatilityPrediction.current, F(15, -1)))
    THEN -1 ELSE 0
LiquidityImpact(liquidityPrediction) ==
    IF liquidityPrediction.flowDirection = "inflow" THEN 1
    ELSE IF liquidityPrediction.flowDirection = "outflow" THEN -1
    ELSE 0
MarketImpact(marketData) ==
    IF FGt(marketData.change24h, Num(5)) THEN 1
    ELSE IF FLt(marketData.change24h, Num(-5)) THEN -1
    ELSE 0
\* The conversion of the score with the hedge test first: buy and sell lose
\* their precedence.  Property C1 tells it from ActionOfScore.
ActionOfScoreHedgeFirst(actionScore, riskAssessment, volatilityPrediction) ==
    IF riskAssessment.overall > 60
       \/ FGt(volatilityPrediction.predicted24h, F(5, -1)) THEN "hedge"
    ELSE IF actionScore >= 2 THEN "buy"
    ELSE IF actionScore <= -2 THEN "sell"
    ELSE "hold"
\* if (actionScore >= 2) ... return 'hold'
ActionOfScore(actionScore, riskAssessment, volatilityPrediction) ==
    IF actionScore >= 2 THEN "buy"
    ELSE IF actionScore <= -2 THEN "sell"
    ELSE IF riskAssessment.overall > 60
            \/ FGt(volatilityPrediction.predicted24h, F(5, -1)) THEN "hedge"
    ELSE "hold"
determineOptimalAction(riskAssessment, volatilityPrediction, liquidityPrediction, marketData) ==
    ActionOfScore(RiskImpact(riskAssessment)
                      + VolatilityImpact(volatilityPrediction)
                      + LiquidityImpact(liquidityPrediction)
                      + MarketImpact(marketData),
                  riskAssessment, volatilityPrediction)

\* risks.reduce((sum, risk) => sum + (risk - mean) ** 2, 0) / risks.length
RiskVariance(risks, mean) ==
    FDiv(FSum([i \in 1..Len(risks) |-> FSq(FSub(risks[i], mean))]),
         Num(Len(risks)))
RiskMean(risks) == FDiv(FSum(risks), Num(Len(risks)))
\* The consistency without the floor of Math.max.  Property C10 tells it
\* from ConsistencyOf.
ConsistencyOfUnfloored(risks) ==
    FSub(Num(1), FDiv(FSqrt(RiskVariance(risks, RiskMean(risks))), Num(50)))
\* Math.max(0.3, 1 - Math.sqrt(variance) / 50)
ConsistencyOf(risks) ==
    FMax(F(3, -1),
         FSub(Num(1), FDiv(FSqrt(RiskVariance(risks, RiskMean(risks))),
                           Num(50))))
calculateRiskConsistency(riskAssessment) ==
    ConsistencyOf(<<Num(riskAssessment.technical),
                    Num(riskAssessment.governance),
                    Num(riskAssessment.market),
                    Num(riskAssessment.liquidity)>>)

calculateActionConfidence(riskAssessment, volatilityPrediction, liquidityPrediction) ==
    FDiv(FAdd(FAdd(volatilityPrediction.confidence,
                   liquidityPrediction.confidence),
              calculateRiskConsistency(riskAssessment)),
         Num(3))

Min(a, b) == IF a <= b THEN a ELSE b
HourMs == 60 * 60 * 1000
DayMs == 24 * HourMs
\* let entryDelay = 0, raised to one hour when volatility is expected to
\* fall, capped at 30 minutes for a buy into an inflow
entryDelay(volatilityPrediction, liquidityPrediction, action) ==
    IF liquidityPrediction.flowDirection = "inflow" /\ action = "buy"
    THEN Min(IF FLt(volatilityPrediction.predicted1h,
                    volatilityPrediction.current) THEN HourMs ELSE 0,
             HourMs \div 2)
    ELSE IF FLt(volatilityPrediction.predicted1h,
                volatilityPrediction.current) THEN HourMs ELSE 0
exitDelay(volatilityPrediction, action) ==
    IF action = "hedge"
    THEN IF FGt(volatilityPrediction.predicted24h, F(3, -1))
         THEN 2 * DayMs ELSE DayMs
    ELSE IF action = "buy" THEN 7 * DayMs
    ELSE DayMs
\* calculateOptimalTiming; dateNow is the reading of Date.now().
calculateOptimalTiming(volatilityPrediction, liquidityPrediction, action, dateNow) ==
    [entry |-> dateNow
                 + entryDelay(volatilityPrediction, liquidityPrediction, action),
     exit |-> dateNow
                 + entryDelay(volatilityPrediction, liquidityPrediction, action)
                 + exitDelay(volatilityPrediction, action)]

generateRiskMitigationStrategies(riskAssessment, volatilityPrediction, action) ==
    <<"Implement stop-loss orders at 5-10% below entry",
      "Monitor market conditions every 4 hours">>
    \o (IF FGt(volatilityPrediction.predicted24h, F(3, -1))
        THEN <<"Use smaller position sizes due to high volatility",
               "Consider options strategies for volatility hedging">>
        ELSE <<>>)
    \o (IF riskAssessment.governance > 60
        THEN <<"Monitor governance proposals closely",
               "Prepare for potential governance-driven price movements">>
        ELSE <<>>)
    \o (IF riskAssessment.liquidity > 60
        THEN <<"Ensure sufficient liquidity buffers",
               "Consider staggered entry/exit strategies">>
        ELSE <<>>)
    \o (IF riskAssessment.technical > 60
        THEN <<"Review smart contract audit reports",
               "Monitor protocol upgrade implementations">>
        ELSE <<>>)
    \o (IF action = "hedge"
        THEN <<"Use correlated assets for hedging",
               "Consider derivatives for downside protection">>
        ELSE <<>>)

assets == <<"ETH", "BTC", "USDC", "PROTOCOL_TOKEN">>
currentWeights == <<Rat(4, 10), Rat(3, 10), Rat(2, 10), Rat(1, 10)>>
\* The weight of one asset before the weights are normalised.
AdjustedWeight(riskAssessment, index) ==
    IF assets[index] = "USDC"
    THEN RatMin(Rat(1, 2),
                RatAdd(currentWeights[index],
                       RatMul(Rat(riskAssessment.overall, 100), Rat(2, 10))))
    ELSE IF assets[index] = "PROTOCOL_TOKEN"
            /\ (riskAssessment.technical > 60 \/ riskAssessment.governance > 60)
    THEN RatMax(Rat(5, 100), RatMul(currentWeights[index], Rat(1, 2)))
    ELSE currentWeights[index]
RECURSIVE RatSumFrom(_, _, _)
RatSumFrom(ws, i, acc) ==
    IF i > Len(ws) THEN acc ELSE RatSumFrom(ws, i + 1, RatAdd(acc, ws[i]))
RatSum(ws) == RatSumFrom(ws, 1, Rat(0, 1))
Normalize(ws, totalWeight) ==
    [i \in 1..Len(ws) |->
        [asset |-> assets[i], currentWeight |-> currentWeights[i],
         recommendedWeight |-> RatDiv(ws[i], totalWeight)]]
\* The weights divided by the total of the current weights instead of their
\* own total.  Property C4 tells it from Recommend.
RecommendByCurrentTotal(ws) == Normalize(ws, RatSum(currentWeights))
\* const totalWeight = recommendations.reduce(...), then the division
Recommend(ws) == Normalize(ws, RatSum(ws))
\* marketData is not read; userProfile is read with ?. into a value that is
\* not used.
generateRebalancingRecommendations(riskAssessment, marketData, userProfile) ==
    Recommend([i \in 1..Len(assets) |-> AdjustedWeight(riskAssessment, i)])

\* The try block with userProfile.riskTolerance read without the ?. guard.
\* Property C3 tells it from Throws.
ThrowsOnMissingProfile(riskAssessment, volatilityPrediction, liquidityPrediction, marketData, userProfile) ==
    ~marketData.def \/ ~userProfile.def

\* Reading marketData.change24h (determineOptimalAction) is a TypeError when
\* marketData is undefined; nothing else in the try block throws.
Throws(riskAssessment, volatilityPrediction, liquidityPrediction, marketData, userProfile) ==
    ~marketData.def

\* The record of the catch block.
DefaultGuidance(dateNow) ==
    [action |-> "hold",
     confidence |-> F(5, -1),
     optimalTiming |-> [entry |-> dateNow + HourMs, exit |-> dateNow + DayMs],
     riskMitigation |-> <<"Monitor market conditions", "Set stop losses",
                          "Diversify holdings">>,
     portfolioRebalancing |-> <<>>]

\* The record of the try block with a strategy that depends on the user
\* profile.  Property C2 tells it from ComputedGuidance.
ComputedGuidanceByProfile(riskAssessment, volatilityPrediction, liquidityPrediction, marketData, userProfile, dateNow, action) ==
    [action |-> action,
     confidence |-> calculateActionConfidence(riskAssessment,
                        volatilityPrediction, liquidityPrediction),
     optimalTiming |-> calculateOptimalTiming(volatilityPrediction,
                           liquidityPrediction, action, dateNow),
     riskMitigation |->
        generateRiskMitigationStrategies(riskAssessment, volatilityPrediction,
                                         action)
        \o (IF userProfile.def THEN <<"Match position size to risk tolerance">>
            ELSE <<>>),
     portfolioRebalancing |-> generateRebalancingRecommendations(
                                  riskAssessment, marketData, userProfile)]

\* The record of the try block.
ComputedGuidance(riskAssessment, volatilityPrediction, liquidityPrediction, marketData, userProfile, dateNow, action) ==
    [action |-> action,
     confidence |-> calculateActionConfidence(riskAssessment,
                        volatilityPrediction, liquidityPrediction),
     optimalTiming |-> calculateOptimalTiming(volatilityPrediction,
                           liquidityPrediction, action, dateNow),
     riskMitigation |-> generateRiskMitigationStrategies(riskAssessment,
                            volatilityPrediction, action),
     portfolioRebalancing |-> generateRebalancingRecommendations(
                                  riskAssessment, marketData, userProfile)]

\* generateExecutionGuidance: what the promise is fulfilled with, and by
\* which block.
generateExecutionGuidance(riskAssessment, volatilityPrediction, liquidityPrediction, marketData, userProfile, dateNow) ==
    IF Throws(riskAssessment, volatilityPrediction, liquidityPrediction,
              marketData, userProfile)
    THEN [threw |-> TRUE, origin |-> "default",
          result |-> DefaultGuidance(dateNow)]
    ELSE [threw |-> FALSE, origin |-> "computed",
          result |-> ComputedGuidance(riskAssessment, volatilityPrediction,
                         liquidityPrediction, marketData.v, userProfile,
                         dateNow,
                         determineOptimalAction(riskAssessment,
                             volatilityPrediction, liquidityPrediction,
                             marketData.v))]

\* The inputs of generateExecutionGuidance.
OverallLevels == {29, 30, 60, 61, 70, 71}
FactorLevels == {60, 61}
GuideRisks ==
    [overall : OverallLevels, technical : FactorLevels,
     governance : FactorLevels, market : {60}, liquidity : FactorLevels]
VolForecasts ==
    {[current |-> c[1], predicted1h |-> h, predicted24h |-> c[2],
      confidence |-> F(9, -1)] :
        c \in {<<F(2, -1), F(2, -1)>>, <<F(2, -1), F(3, -1)>>,
               <<F(2, -1), F(31, -2)>>, <<F(4, -1), F(5, -1)>>,
               <<F(4, -1), F(51, -2)>>, <<F(4, -1), F(61, -2)>>},
        h \in {F(1, -1), F(4, -1)}}
LiqForecasts ==
    [flowDirection : {"inflow", "outflow", "stable"}, confidence : {F(8, -1)}]
MarketSnapshots ==
    {Undefined} \cup {Def([change24h |-> Num(c)]) : c \in {-6, -5, 5, 6}}
UserProfiles == {Undefined, Def([riskTolerance |-> F(3, -1)])}

NoRisk ==
    [overall |-> 0, technical |-> 0, governance |-> 0, market |-> 0,
     liquidity |-> 0]
NoVolForecast ==
    [current |-> Zero, predicted1h |-> Zero, predicted24h |-> Zero,
     confidence |-> Zero]
NoLiqForecast == [flowDirection |-> "none", confidence |-> Zero]
NoGuidance ==
    [action |-> "none", confidence |-> Zero,
     optimalTiming |-> [entry |-> 0, exit |-> 0], riskMitigation |-> <<>>,
     portfolioRebalancing |-> <<>>]

\* No call of generateExecutionGuidance is running.
GuideIdle ==
    [phase |-> "idle", risk |-> NoRisk, vol |-> NoVolForecast,
     liq |-> NoLiqForecast, market |-> Undefined, profile |-> Undefined,
     calledAt |-> 0, threw |-> FALSE, settled |-> "none", error |-> "none",
     origin |-> "none", result |-> NoGuidance]
\* The call is not a repetition of an earlier one.
NoGuide ==
    [called |-> FALSE, risk |-> NoRisk, vol |-> NoVolForecast,
     liq |-> NoLiqForecast, market |-> Undefined, calledAt |-> 0,
     action |-> "none", riskMitigation |-> <<>>]

Returned(riskAssessment, volatilityPrediction, liquidityPrediction, marketData, userProfile, dateNow, outcome) ==
    [phase |-> "returned", risk |-> riskAssessment,
     vol |-> volatilityPrediction, liq |-> liquidityPrediction,
     market |-> marketData, profile |-> userProfile, calledAt |-> dateNow,
     threw |-> outcome.threw, settled |-> "fulfilled", error |-> "none",
     origin |-> outcome.origin, result |-> outcome.result]

\* The largest reading of the clock, in steps of ClockStep ms.
MaxClockTicks == 1
ClockStep == HourMs \div 2

\* Time passes.
Tick ==
    /\ now < MaxClockTicks * ClockStep
    /\ now' = now + ClockStep
    /\ UNCHANGED <<crossFlows, feeds, socket, app, volConfidence, eventForecast, calls, vol, liq, flow, consistency, rebalance, guide, prevGuide>>

\* A call of generateExecutionGuidance, from the try block to the return.
GenerateExecutionGuidance ==
    /\ guide.phase = "idle"
    /\ \E riskAssessment \in GuideRisks, volatilityPrediction \in VolForecasts,
          liquidityPrediction \in LiqForecasts, marketData \in MarketSnapshots,
          userProfile \in UserProfiles :
         guide' = Returned(riskAssessment, volatilityPrediction,
                      liquidityPrediction, marketData, userProfile, now,
                      generateExecutionGuidance(riskAssessment,
                          volatilityPrediction, liquidityPrediction, marketData,
                          userProfile, now))
    /\ UNCHANGED <<crossFlows, feeds, socket, app, volConfidence, eventForecast, calls, now, vol, liq, flow, consistency, rebalance, prevGuide>>

\* The caller calls again with the same risk, volatility, liquidity and
\* market inputs, at the present time and with another user profile.
GenerateExecutionGuidanceAgain ==
    /\ guide.phase = "returned"
    /\ ~prevGuide.called
    /\ prevGuide' =
         [called |-> TRUE, risk |-> guide.risk, vol |-> guide.vol,
          liq |-> guide.liq, market |-> guide.market,
          calledAt |-> guide.calledAt, action |-> guide.result.action,
          riskMitigation |-> guide.result.riskMitigation]
    /\ \E userProfile \in UserProfiles \ {guide.profile} :
         guide' = Returned(guide.risk, guide.vol, guide.liq, guide.market,
                      userProfile, now,
                      generateExecutionGuidance(guide.risk, guide.vol,
                          guide.liq, guide.market, userProfile, now))
    /\ UNCHANGED <<crossFlows, feeds, socket, app, volConfidence, eventForecast, calls, now, vol, liq, flow, consistency, rebalance>>

GuideDone ==
    /\ guide.phase = "returned"
    /\ guide' = GuideIdle
    /\ prevGuide' = NoGuide
    /\ UNCHANGED <<crossFlows, feeds, socket, app, volConfidence, eventForecast, calls, now, vol, liq, flow, consistency, rebalance>>

\* calculateRiskConsistency on its own: the risk vectors it is applied to.
ConsistencyLevels == {0, 1, 50, 61, 100}
ConsistencyRisks ==
    [overall : {50}, technical : ConsistencyLevels,
     governance : ConsistencyLevels, market : ConsistencyLevels,
     liquidity : ConsistencyLevels]
ConsistencyIdle == [phase |-> "idle", risk |-> NoRisk, result |-> Zero]

CalculateRiskConsistency ==
    /\ consistency.phase = "idle"
    /\ \E riskAssessment \in ConsistencyRisks :
         consistency' = [phase |-> "returned", risk |-> riskAssessment,
                         result |-> calculateRiskConsistency(riskAssessment)]
    /\ UNCHANGED <<crossFlows, feeds, socket, app, volConfidence, eventForecast, calls, now, vol, liq, flow, rebalance, guide, prevGuide>>

ConsistencyDone ==
    /\ consistency.phase = "returned"
    /\ consistency' = ConsistencyIdle
    /\ UNCHANGED <<crossFlows, feeds, socket, app, volConfidence, eventForecast, calls, now, vol, liq, flow, rebalance, guide, prevGuide>>

\* generateRebalancingRecommendations on its own, over every whole overall
\* risk score.
RebalanceRisks ==
    [overall : 0..100, technical : FactorLevels, governance : FactorLevels,
     market : {60}, liquidity : {60}]
RebalanceIdle ==
    [phase |-> "idle", risk |-> NoRisk, profile |-> Undefined, result |-> <<>>]

GenerateRebalancingRecommendations ==
    /\ rebalance.phase = "idle"
    /\ \E riskAssessment \in RebalanceRisks, userProfile \in UserProfiles :
         rebalance' =
            [phase |-> "returned", risk |-> riskAssessment,
             profile |-> userProfile,
             result |-> generateRebalancingRecommendations(riskAssessment,
                            [change24h |-> Zero], userProfile)]
    /\ UNCHANGED <<crossFlows, feeds, socket, app, volConfidence, eventForecast, calls, now, vol, liq, flow, consistency, guide, prevGuide>>

RebalanceDone ==
    /\ rebalance.phase = "returned"
    /\ rebalance' = RebalanceIdle
    /\ UNCHANGED <<crossFlows, feeds, socket, app, volConfidence, eventForecast, calls, now, vol, liq, flow, consistency, guide, prevGuide>>

\* The confidence of generateVolatilityPredictions on its own: two pairs of
\* alpha and beta, in hundredths.
ConfidenceLevels == {1, 10, 45, 47, 48, 50, 85, 99}
VolConfidenceIdle ==
    [phase |-> "idle", alpha |-> <<0, 0>>, beta |-> <<0, 0>>,
     result |-> <<Zero, Zero>>]

PredictionConfidence ==
    /\ volConfidence.phase = "idle"
    /\ \E alpha \in [1..2 -> ConfidenceLevels], beta \in [1..2 -> ConfidenceLevels] :
         volConfidence' =
            [phase |-> "returned", alpha |-> alpha, beta |-> beta,
             result |-> [i \in 1..2 |->
                predictionConfidence(FAdd(F(alpha[i], -2), F(beta[i], -2)))]]
    /\ UNCHANGED <<crossFlows, feeds, socket, app, now, vol, liq, flow, consistency, rebalance, eventForecast, calls, guide, prevGuide>>

VolConfidenceDone ==
    /\ volConfidence.phase = "returned"
    /\ volConfidence' = VolConfidenceIdle
    /\ UNCHANGED <<crossFlows, feeds, socket, app, now, vol, liq, flow, consistency, rebalance, eventForecast, calls, guide, prevGuide>>

\* generateVolatilityPredictions on its own: the same current volatility
\* and parameters with an upgrade event and without one.
ForecastCurrents == {Zero, F(1, -1), F(5, -1)}
ForecastParams ==
    [alpha : {F(1, -2), F(1, -1), F(85, -2), F(99, -2)},
     beta : {F(1, -2), F(1, -1), F(85, -2), F(99, -2)},
     omega : {F(1, -3), F(1, -2)}]
ForecastEvents ==
    {Undefined} \cup
    {Def([type |-> "governance", riskScore |-> Num(r)]) :
        r \in {0, 1, 33, 50, 100}}
NoPredictions ==
    [h1 |-> Zero, d1 |-> Zero, d7 |-> Zero, confidence |-> Zero]
EventForecastIdle ==
    [phase |-> "idle", current |-> Zero, garchParams |-> NoParams,
     event |-> Undefined, withEvent |-> NoPredictions,
     withoutEvent |-> NoPredictions]

GenerateVolatilityPredictions ==
    /\ eventForecast.phase = "idle"
    /\ \E current \in ForecastCurrents, garchParams \in ForecastParams,
          upgradeEvent \in ForecastEvents :
         eventForecast' =
            [phase |-> "returned", current |-> current,
             garchParams |-> garchParams, event |-> upgradeEvent,
             withEvent |-> generateVolatilityPredictions(current, garchParams,
                               upgradeEvent),
             withoutEvent |-> generateVolatilityPredictions(current,
                                  garchParams, Undefined)]
    /\ UNCHANGED <<crossFlows, feeds, socket, app, now, vol, liq, flow, consistency, rebalance, volConfidence, calls, guide, prevGuide>>

EventForecastDone ==
    /\ eventForecast.phase = "returned"
    /\ eventForecast' = EventForecastIdle
    /\ UNCHANGED <<crossFlows, feeds, socket, app, now, vol, liq, flow, consistency, rebalance, volConfidence, calls, guide, prevGuide>>

\* Two callers use the three services at the same time.  A service object
\* has no field of its own (the only static field is the instance itself),
\* so all a call works on is its arguments and the variables of its own
\* activation, kept here in the caller's frame.  alone and aloneResult are
\* what the call computes from its own frame only.
Callers == {1, 2}
ConcurrentPrices ==
    {<<Num(100), Num(10000)>>, <<Num(1), Num(100), Num(10000)>>}
ConcurrentRisks ==
    {r \in GuideRisks :
        /\ r.overall \in {30, 71}
        /\ r.technical = 60 /\ r.governance = 60 /\ r.liquidity = 60}
ConcurrentMarkets ==
    {m \in MarketSnapshots : m.def => m.v.change24h \in {Num(-6), Num(5)}}
ConcurrentVolForecast ==
    [current |-> F(2, -1), predicted1h |-> F(1, -1),
     predicted24h |-> F(3, -1), confidence |-> F(9, -1)]
ConcurrentLiqForecast == [flowDirection |-> "outflow", confidence |-> F(8, -1)]
ConcurrentTvl ==
    {h \in TvlHistories : h.def /\ Len(h.v) = 2 /\ h.v[1].tvl = Num(1000)}

NoLocals ==
    [returns |-> <<>>, params |-> NoParams, iter |-> 0, action |-> "none",
     trend |-> Zero, volatility |-> Zero, seasonality |-> Zero]
NoResults ==
    [volatility |-> NoVolPrediction, guidance |-> NoGuidance,
     liquidity |-> NoLiqPrediction]
CallIdle ==
    [service |-> "none", phase |-> "idle", interleaved |-> FALSE,
     prices |-> <<>>, risk |-> NoRisk, market |-> Undefined,
     history |-> <<>>, draws |-> <<>>,
     locals |-> NoLocals, alone |-> NoLocals,
     result |-> NoResults, aloneResult |-> NoResults]
NoCalls == [k \in Callers |-> CallIdle]

\* The variables a step of call k works on, as if they were fields of the
\* shared service object: another running call of the same service has
\* overwritten them.  Property C12 tells it from LocalsOf.
LocalsOnInstance(c, k) ==
    IF \E j \in Callers \ {k} :
          c[j].service = c[k].service /\ c[j].phase = "running"
    THEN c[CHOOSE j \in Callers \ {k} :
              c[j].service = c[k].service /\ c[j].phase = "running"].locals
    ELSE c[k].locals
\* The variables a step of call k works on: const and let declarations of
\* the method bodies, one set per activation.
LocalsOf(c, k) == c[k].locals

\* Another call is in progress while call k takes a step.
OtherRunning(c, k) == \E j \in Callers \ {k} : c[j].phase = "running"

\* The record predictVolatility returns from its variables.
VolatilityResult(returns, params) ==
    [current |-> calculateCurrentVolatility(returns),
     predicted1h |-> generateVolatilityPredictions(
                         calculateCurrentVolatility(returns), params,
                         Undefined).h1,
     predicted24h |-> generateVolatilityPredictions(
                          calculateCurrentVolatility(returns), params,
                          Undefined).d1,
     predicted7d |-> generateVolatilityPredictions(
                         calculateCurrentVolatility(returns), params,
                         Undefined).d7,
     confidence |-> generateVolatilityPredictions(
                        calculateCurrentVolatility(returns), params,
                        Undefined).confidence,
     garchParams |-> params]

\* Caller k calls predictVolatility: the call runs up to the loop of
\* fitGARCH.
CallPredictVolatility ==
    /\ \E k \in Callers, prices \in ConcurrentPrices :
         /\ calls[k].phase = "idle"
         /\ \E returns \in {calculateReturns(prices)} :
            \E started \in {[NoLocals EXCEPT !.returns = returns,
                                !.params = fitGARCHSeed(returns)]} :
              calls' = [calls EXCEPT ![k] =
                  [CallIdle EXCEPT
                      !.service = "volatility", !.phase = "running",
                      !.interleaved = OtherRunning(calls, k),
                      !.prices = prices,
                      !.locals = started, !.alone = started]]
    /\ UNCHANGED <<crossFlows, feeds, socket, app, now, vol, liq, flow, consistency, rebalance, volConfidence, eventForecast, guide, prevGuide>>

\* One iteration of the loop of fitGARCH in the call of caller k.
CallFitStep ==
    /\ \E k \in Callers :
         /\ calls[k].service = "volatility"
         /\ calls[k].phase = "running"
         /\ calls[k].alone.iter < FitIterations
         /\ \E mine \in {LocalsOf(calls, k)}, own \in {calls[k].alone} :
              calls' = [calls EXCEPT ![k] =
                  [calls[k] EXCEPT
                      !.interleaved = @ \/ OtherRunning(calls, k),
                      !.locals =
                          [mine EXCEPT
                              !.params = optimizeGARCH(mine.returns,
                                  mine.params.alpha, mine.params.beta,
                                  mine.params.omega),
                              !.iter = mine.iter + 1],
                      !.alone =
                          [own EXCEPT
                              !.params = optimizeGARCH(own.returns,
                                  own.params.alpha, own.params.beta,
                                  own.params.omega),
                              !.iter = own.iter + 1]]]
    /\ UNCHANGED <<crossFlows, feeds, socket, app, now, vol, liq, flow, consistency, rebalance, volConfidence, eventForecast, guide, prevGuide>>

\* The call of caller k leaves the loop and returns its record.
CallReturnVolatility ==
    /\ \E k \in Callers :
         /\ calls[k].service = "volatility"
         /\ calls[k].phase = "running"
         /\ calls[k].alone.iter >= FitIterations
         /\ \E mine \in {LocalsOf(calls, k)}, own \in {calls[k].alone} :
              calls' = [calls EXCEPT ![k] =
                  [calls[k] EXCEPT
                      !.phase = "returned",
                      !.interleaved = @ \/ OtherRunning(calls, k),
                      !.result = [NoResults EXCEPT !.volatility =
                          VolatilityResult(mine.returns, mine.params)],
                      !.aloneResult = [NoResults EXCEPT !.volatility =
                          VolatilityResult(own.returns, own.params)]]]
    /\ UNCHANGED <<crossFlows, feeds, socket, app, now, vol, liq, flow, consistency, rebalance, volConfidence, eventForecast, guide, prevGuide>>

\* Caller k calls generateExecutionGuidance: the call has chosen its action
\* (part_001:22), or has fallen into the catch block and returned.
CallGenerateExecutionGuidance ==
    /\ \E k \in Callers, riskAssessment \in ConcurrentRisks,
          marketData \in ConcurrentMarkets :
         /\ calls[k].phase = "idle"
         /\ \E alone \in {generateExecutionGuidance(riskAssessment,
                              ConcurrentVolForecast, ConcurrentLiqForecast,
                              marketData, Undefined, now).result} :
              calls' = [calls EXCEPT ![k] =
                  IF Throws(riskAssessment, ConcurrentVolForecast,
                            ConcurrentLiqForecast, marketData, Undefined)
                  THEN [CallIdle EXCEPT
                          !.service = "guidance", !.phase = "returned",
                          !.interleaved = OtherRunning(calls, k),
                          !.risk = riskAssessment, !.market = marketData,
                          !.result = [NoResults EXCEPT !.guidance =
                              DefaultGuidance(now)],
                          !.aloneResult = [NoResults EXCEPT !.guidance =
                              alone]]
                  ELSE [CallIdle EXCEPT
                          !.service = "guidance", !.phase = "running",
                          !.interleaved = OtherRunning(calls, k),
                          !.risk = riskAssessment, !.market = marketData,
                          !.locals = [NoLocals EXCEPT !.action =
                              determineOptimalAction(riskAssessment,
                                  ConcurrentVolForecast,
                                  ConcurrentLiqForecast, marketData.v)],
                          !.aloneResult = [NoResults EXCEPT !.guidance =
                              alone]]]
    /\ UNCHANGED <<crossFlows, feeds, socket, app, now, vol, liq, flow, consistency, rebalance, volConfidence, eventForecast, guide, prevGuide>>

\* The call of caller k builds the rest of its record from the action it
\* chose (part_001:29-58) and returns.
CallReturnGuidance ==
    /\ \E k \in Callers :
         /\ calls[k].service = "guidance"
         /\ calls[k].phase = "running"
         /\ \E mine \in {LocalsOf(calls, k)} :
              calls' = [calls EXCEPT ![k] =
                  [calls[k] EXCEPT
                      !.phase = "returned",
                      !.interleaved = @ \/ OtherRunning(calls, k),
                      !.result = [NoResults EXCEPT !.guidance =
                          ComputedGuidance(calls[k].risk,
                              ConcurrentVolForecast, ConcurrentLiqForecast,
                              calls[k].market.v, Undefined, now,
                              mine.action)]]]
    /\ UNCHANGED <<crossFlows, feeds, socket, app, now, vol, liq, flow, consistency, rebalance, volConfidence, eventForecast, guide, prevGuide>>

\* Caller k calls predictLiquidityFlow: the call has computed its
\* components (liquidityPrediction.ts:21-23).
CallPredictLiquidityFlow ==
    /\ \E k \in Callers, history \in ConcurrentTvl :
         /\ calls[k].phase = "idle"
         /\ calls' = [calls EXCEPT ![k] =
              [CallIdle EXCEPT
                  !.service = "liquidity", !.phase = "running",
                  !.interleaved = OtherRunning(calls, k),
                  !.history = history.v,
                  !.locals = [NoLocals EXCEPT
                      !.trend = calculateTrend(history.v),
                      !.seasonality = calculateSeasonality(8, 1),
                      !.volatility = calculateTVLVolatility(history.v)]]]
    /\ UNCHANGED <<crossFlows, feeds, socket, app, now, vol, liq, flow, consistency, rebalance, volConfidence, eventForecast, guide, prevGuide>>

\* The call of caller k draws its three random numbers, builds its
\* forecasts (liquidityPrediction.ts:31-46) and returns.
CallReturnLiquidity ==
    /\ \E k \in Callers, r \in [1..3 -> RandomDraws] :
         /\ calls[k].service = "liquidity"
         /\ calls[k].phase = "running"
         /\ \E mine \in {LocalsOf(calls, k)},
               currentTVL \in {LastTvl(calls[k].history)} :
              calls' = [calls EXCEPT ![k] =
                  [calls[k] EXCEPT
                      !.phase = "returned",
                      !.interleaved = @ \/ OtherRunning(calls, k),
                      !.draws = r,
                      !.result = [NoResults EXCEPT !.liquidity =
                          LiqResult(currentTVL,
                              generateTVLPredictions(currentTVL, mine.trend,
                                  mine.seasonality, mine.volatility, Num(1),
                                  r))],
                      !.aloneResult = [NoResults EXCEPT !.liquidity =
                          LiqResult(currentTVL,
                              generateTVLPredictions(currentTVL,
                                  calculateTrend(calls[k].history),
                                  calculateSeasonality(8, 1),
                                  calculateTVLVolatility(calls[k].history),
                                  Num(1), r))]]]
    /\ UNCHANGED <<crossFlows, feeds, socket, app, now, vol, liq, flow, consistency, rebalance, volConfidence, eventForecast, guide, prevGuide>>

\* Caller k has taken the result of its call.
CallDone ==
    /\ \E k \in Callers :
         /\ calls[k].phase = "returned"
         /\ calls' = [calls EXCEPT ![k] = CallIdle]
    /\ UNCHANGED <<crossFlows, feeds, socket, app, now, vol, liq, flow, consistency, rebalance, volConfidence, eventForecast, guide, prevGuide>>

\* analyzeCrossProtocolFlows(protocols, timeframe); timeframe is not read.
ProtocolLists ==
    {<<>>, <<"aave">>, <<"aave", "compound">>,
     <<"aave", "compound", "uniswap">>,
     <<"aave", "compound", "uniswap", "curve">>}
\* What Math.random() returns for the amount of the k-th flow: three values
\* for the first flows, the two extreme ones for the rest.
AmountDraws(k) ==
    IF k <= 4 THEN {Zero, F(5, -1), F(9999, -4)} ELSE {Zero, F(9999, -4)}
AmountDrawings(n) ==
    {[k \in 1..n |-> IF k <= 4 THEN a[k] ELSE b[k]] :
        a \in [1..(IF n < 4 THEN n ELSE 4) -> AmountDraws(1)],
        b \in [5..n -> AmountDraws(5)]}

\* The k-th pass of the two loops that pushes a flow: i, then j # i.
PairCount(n) == n * (n - 1)
PairFrom(n, k) == ((k - 1) \div (n - 1)) + 1
PairToOf(i, jj) == IF jj < i THEN jj ELSE jj + 1
PairTo(n, k) == PairToOf(PairFrom(n, k), ((k - 1) % (n - 1)) + 1)
\* flows after the loops; r[k] is the draw of the k-th amount and c the draw
\* of the confidences, which the order does not depend on.
AllFlows(protocols, r, c) ==
    [k \in 1..PairCount(Len(protocols)) |->
        [from |-> protocols[PairFrom(Len(protocols), k)],
         to |-> protocols[PairTo(Len(protocols), k)],
         amount |-> FMul(r[k], F(1, 7)),
         confidence |-> FAdd(FMul(c, F(4, -1)), F(6, -1))]]

\* The insertion in ascending order of amount.  Property C23 tells it from
\* InsertByAmount.
RECURSIVE InsertByAmountAscending(_, _)
InsertByAmountAscending(sorted, x) ==
    IF sorted = <<>> THEN <<x>>
    ELSE IF FGt(Head(sorted).amount, x.amount) THEN <<x>> \o sorted
    ELSE <<Head(sorted)>> \o InsertByAmountAscending(Tail(sorted), x)
\* flows.sort((a, b) => b.amount - a.amount): a stable sort, larger amounts
\* first.
RECURSIVE InsertByAmount(_, _)
InsertByAmount(sorted, x) ==
    IF sorted = <<>> THEN <<x>>
    ELSE IF FLt(Head(sorted).amount, x.amount) THEN <<x>> \o sorted
    ELSE <<Head(sorted)>> \o InsertByAmount(Tail(sorted), x)
RECURSIVE SortFrom(_, _, _)
SortFrom(flows, i, sorted) ==
    IF i > Len(flows) THEN sorted
    ELSE SortFrom(flows, i + 1, InsertByAmount(sorted, flows[i]))
SortByAmount(flows) == SortFrom(flows, 1, <<>>)
\* .slice(0, 10)
SliceTen(flows) == SubSeq(flows, 1, IF Len(flows) < 10 THEN Len(flows) ELSE 10)
analyzeCrossProtocolFlows(protocols, r, c) ==
    SliceTen(SortByAmount(AllFlows(protocols, r, c)))

\* No call of analyzeCrossProtocolFlows is running.  pushed: the flows
\* before the sort.
CrossFlowsIdle ==
    [phase |-> "idle", protocols |-> <<>>, pushed |-> <<>>, result |-> <<>>]

AnalyzeCrossProtocolFlows ==
    /\ crossFlows.phase = "idle"
    /\ \E protocols \in ProtocolLists, c \in RandomDraws :
       \E r \in AmountDrawings(PairCount(Len(protocols))) :
         crossFlows' =
            [phase |-> "returned", protocols |-> protocols,
             pushed |-> AllFlows(protocols, r, c),
             result |-> analyzeCrossProtocolFlows(protocols, r, c)]
    /\ UNCHANGED <<now, vol, liq, flow, consistency, rebalance, volConfidence, eventForecast, calls, guide, prevGuide, feeds, socket, app>>

CrossFlowsDone ==
    /\ crossFlows.phase = "returned"
    /\ crossFlows' = CrossFlowsIdle
    /\ UNCHANGED <<now, vol, liq, flow, consistency, rebalance, volConfidence, eventForecast, calls, guide, prevGuide, feeds, socket, app>>

\* The live-event list of NetworkMonitor and the alert list of
\* ExecutionGuidancePanel.  An entry carries the number of the timer tick
\* that made it, in place of its id and timestamp; an alert also carries the
\* message drawn for it.  generated, raised: the ticks so far.
MaxLiveEvents == 12
MaxAlerts == 7
AlertTypes == {"critical", "warning", "info"}
NoFeeds ==
    [liveEvents |-> <<>>, generated |-> 0, alerts |-> <<>>, raised |-> 0]

\* The new entry in front of the whole list.  Property C24 tells it from
\* KeepLast.
KeepAll(entry, prev, n) == <<entry>> \o prev
\* [entry, ...prev.slice(0, n)]
KeepLast(entry, prev, n) ==
    <<entry>> \o SubSeq(prev, 1, IF Len(prev) < n THEN Len(prev) ELSE n)

\* The interval of NetworkMonitor fires: generateLiveEvent.
GenerateLiveEvent ==
    /\ feeds.generated < MaxLiveEvents
    /\ feeds' = [feeds EXCEPT
           !.generated = feeds.generated + 1,
           !.liveEvents = KeepLast([id |-> feeds.generated + 1],
                                   feeds.liveEvents, 9)]
    /\ UNCHANGED <<now, vol, liq, flow, consistency, rebalance, volConfidence, eventForecast, calls, guide, prevGuide, crossFlows, socket, app>>

\* The interval of ExecutionGuidancePanel fires: generateAlert.
GenerateAlert ==
    /\ feeds.raised < MaxAlerts
    /\ \E type \in AlertTypes :
         feeds' = [feeds EXCEPT
             !.raised = feeds.raised + 1,
             !.alerts = KeepLast([id |-> feeds.raised + 1, type |-> type],
                                 feeds.alerts, 4)]
    /\ UNCHANGED <<now, vol, liq, flow, consistency, rebalance, volConfidence, eventForecast, calls, guide, prevGuide, crossFlows, socket, app>>
\* useWebSocket called with a url.
\*   wsRef: what wsRef.current holds: null, a socket that is connecting or
\*     open, or ("stale") a socket whose close event has come;
\*   others: the sockets no ref holds and whose close event has not come,
\*     counted by kind (a socket on which close() was called is closing);
\*   reconnectTimeoutRef, otherTimers: the same for the timeouts set by
\*     onclose, "stale" for one that fired or was cleared;
\*   orphan marks a timeout set by the onclose of a socket that disconnect()
\*     closed, the socket such a timeout makes, and what follows from it;
\*   made: the sockets made so far; closes: the close events since the last
\*     open event; disconnected: disconnect() has run.
maxReconnectAttempts == 5
MaxSockets == 6
SocketKinds == [state : {"connecting", "open", "closing"}, orphan : BOOLEAN]
NullRef == [ref |-> "null", state |-> "none", orphan |-> FALSE]
StaleRef == [ref |-> "stale", state |-> "none", orphan |-> FALSE]
NoSocket ==
    [started |-> FALSE, mounted |-> FALSE, isConnected |-> FALSE,
     wsRef |-> NullRef, others |-> [k \in SocketKinds |-> 0],
     reconnectTimeoutRef |-> NullRef, otherTimers |-> [o \in BOOLEAN |-> 0],
     reconnectAttempts |-> 0, made |-> 0, closes |-> 0,
     disconnected |-> FALSE]

\* The socket wsRef.current held stays alive when the ref is overwritten.
Unreferenced(s) ==
    IF s.wsRef.ref = "socket"
    THEN [s.others EXCEPT
            ![[state |-> s.wsRef.state, orphan |-> s.wsRef.orphan]] = @ + 1]
    ELSE s.others
\* connect(): const ws = new WebSocket(url, protocols); wsRef.current = ws
connect(s, orphan) ==
    [s EXCEPT
        !.others = Unreferenced(s),
        !.wsRef = [ref |-> "socket", state |-> "connecting",
                   orphan |-> orphan],
        !.made = s.made + 1]

\* The test of ws.onclose with one attempt more.  Property C26 tells it
\* from MayReconnect.
MayReconnectOnceMore(s) == s.reconnectAttempts < maxReconnectAttempts + 1
\* if (reconnectAttemptsRef.current < maxReconnectAttempts)
MayReconnect(s) == s.reconnectAttempts < maxReconnectAttempts

\* The timeout reconnectTimeoutRef.current held stays pending when the ref
\* is overwritten.
UnreferencedTimers(s) ==
    IF s.reconnectTimeoutRef.ref = "timer"
    THEN [s.otherTimers EXCEPT ![s.reconnectTimeoutRef.orphan] = @ + 1]
    ELSE s.otherTimers
\* ws.onclose; orphan: the socket was closed by disconnect() or is itself
\* an orphan.
onclose(s, orphan) ==
    IF MayReconnect(s)
    THEN [s EXCEPT
            !.isConnected = FALSE,
            !.closes = s.closes + 1,
            !.reconnectAttempts = s.reconnectAttempts + 1,
            !.otherTimers = UnreferencedTimers(s),
            !.reconnectTimeoutRef =
                [ref |-> "timer", state |-> "pending", orphan |-> orphan]]
    ELSE [s EXCEPT !.isConnected = FALSE, !.closes = s.closes + 1]

\* clearTimeout(reconnectTimeoutRef.current), of no effect on a timeout
\* that has fired; the ref keeps the handle.
ClearReconnectTimeout(s) ==
    IF s.reconnectTimeoutRef.ref = "timer"
    THEN [s EXCEPT !.reconnectTimeoutRef = StaleRef]
    ELSE s
\* wsRef.current.close(); wsRef.current = null.  close() starts the closing
\* handshake of a socket that is connecting or open; its close event comes
\* later.
CloseCurrent(s) ==
    IF s.wsRef.ref = "socket"
    THEN [s EXCEPT
            !.others[[state |-> "closing", orphan |-> s.wsRef.orphan]] = @ + 1,
            !.wsRef = NullRef]
    ELSE [s EXCEPT !.wsRef = NullRef]
RunDisconnect(s) ==
    [CloseCurrent(ClearReconnectTimeout(s)) EXCEPT !.disconnected = TRUE]

\* The component mounts: the effect runs connect().
Mount ==
    /\ ~socket.started
    /\ socket' = connect([socket EXCEPT !.started = TRUE, !.mounted = TRUE],
                         FALSE)
    /\ UNCHANGED <<now, vol, liq, flow, consistency, rebalance, volConfidence, eventForecast, calls, guide, prevGuide, crossFlows, feeds, app>>

\* The open event of a socket: ws.onopen.
OpenEvent(s) ==
    [s EXCEPT !.isConnected = TRUE, !.reconnectAttempts = 0, !.closes = 0]
OnOpen ==
    /\ \/ /\ socket.wsRef.ref = "socket"
          /\ socket.wsRef.state = "connecting"
          /\ socket' = OpenEvent([socket EXCEPT !.wsRef.state = "open"])
       \/ \E o \in BOOLEAN :
            /\ socket.others[[state |-> "connecting", orphan |-> o]] > 0
            /\ socket' = OpenEvent([socket EXCEPT
                   !.others[[state |-> "connecting", orphan |-> o]] = @ - 1,
                   !.others[[state |-> "open", orphan |-> o]] = @ + 1])
    /\ UNCHANGED <<now, vol, liq, flow, consistency, rebalance, volConfidence, eventForecast, calls, guide, prevGuide, crossFlows, feeds, app>>

\* The close event of a socket, closed by the peer, by a failure or by
\* close(): ws.onclose.
OnClose ==
    /\ \/ /\ socket.wsRef.ref = "socket"
          /\ socket' = onclose([socket EXCEPT !.wsRef = StaleRef],
                               socket.wsRef.orphan)
       \/ \E k \in SocketKinds :
            /\ socket.others[k] > 0
            /\ socket' = onclose([socket EXCEPT !.others[k] = @ - 1],
                                 k.state = "closing" \/ k.orphan)
    /\ UNCHANGED <<now, vol, liq, flow, consistency, rebalance, volConfidence, eventForecast, calls, guide, prevGuide, crossFlows, feeds, app>>

\* A reconnect timeout fires: connect().
ReconnectTimeout ==
    /\ socket.made < MaxSockets
    /\ \/ /\ socket.reconnectTimeoutRef.ref = "timer"
          /\ socket' = connect([socket EXCEPT !.reconnectTimeoutRef = StaleRef],
                               socket.reconnectTimeoutRef.orphan)
       \/ \E o \in BOOLEAN :
            /\ socket.otherTimers[o] > 0
            /\ socket' = connect([socket EXCEPT !.otherTimers[o] = @ - 1], o)
    /\ UNCHANGED <<now, vol, liq, flow, consistency, rebalance, volConfidence, eventForecast, calls, guide, prevGuide, crossFlows, feeds, app>>

\* The caller of the hook calls disconnect().
Disconnect ==
    /\ socket.mounted
    /\ socket' = RunDisconnect(socket)
    /\ UNCHANGED <<now, vol, liq, flow, consistency, rebalance, volConfidence, eventForecast, calls, guide, prevGuide, crossFlows, feeds, app>>

\* A dependency of the effect changes: the cleanup runs disconnect(), then
\* the effect runs connect().
DependencyChange ==
    /\ socket.mounted
    /\ socket.made < MaxSockets
    /\ socket' = connect(RunDisconnect(socket), FALSE)
    /\ UNCHANGED <<now, vol, liq, flow, consistency, rebalance, volConfidence, eventForecast, calls, guide, prevGuide, crossFlows, feeds, app>>

\* The component unmounts: the cleanup runs disconnect().
Unmount ==
    /\ socket.mounted
    /\ socket' = [RunDisconnect(socket) EXCEPT !.mounted = FALSE]
    /\ UNCHANGED <<now, vol, liq, flow, consistency, rebalance, volConfidence, eventForecast, calls, guide, prevGuide, crossFlows, feeds, app>>

\* The sockets that are connecting or open, and the timeouts that are
\* pending.
Connections(s) ==
    (IF s.wsRef.ref = "socket" THEN 1 ELSE 0)
    + s.others[[state |-> "connecting", orphan |-> FALSE]]
    + s.others[[state |-> "connecting", orphan |-> TRUE]]
    + s.others[[state |-> "open", orphan |-> FALSE]]
    + s.others[[state |-> "open", orphan |-> TRUE]]
OpenSockets(s) ==
    (IF s.wsRef.ref = "socket" /\ s.wsRef.state = "open" THEN 1 ELSE 0)
    + s.others[[state |-> "open", orphan |-> FALSE]]
    + s.others[[state |-> "open", orphan |-> TRUE]]
PendingTimeouts(s) ==
    (IF s.reconnectTimeoutRef.ref = "timer" THEN 1 ELSE 0)
    + s.otherTimers[FALSE] + s.otherTimers[TRUE]
OrphanConnections(s) ==
    (IF s.wsRef.ref = "socket" /\ s.wsRef.orphan THEN 1 ELSE 0)
    + s.others[[state |-> "connecting", orphan |-> TRUE]]
    + s.others[[state |-> "open", orphan |-> TRUE]]
OrphanTimeouts(s) ==
    (IF s.reconnectTimeoutRef.ref = "timer" /\ s.reconnectTimeoutRef.orphan
     THEN 1 ELSE 0)
    + s.otherTimers[TRUE]
\* The state of App that the NetworkMonitor panel shows and changes:
\* selectedNetworks and config, with the values of their useState calls.
AppInitial ==
    [selectedNetworks |-> <<"ethereum">>,
     config |->
        [networks |-> <<"ethereum">>,
         protocols |-> <<"0x7d27", "0xA0b8">>,
         upgradeTypes |-> <<"governance", "implementation", "parameter">>,
         riskThresholds |->
            [volatility |-> 50, liquidity |-> 30, governance |-> 60],
         timeHorizon |-> "24h",
         assetPairs |-> <<"ETH/USDC">>,
         refreshInterval |-> 30000]]
\* What the user picks in the panel.
NetworkIds == {"bitcoin", "ethereum", "polygon"}
ProtocolInputs == {"0xNew"}
ToggledUpgradeTypes == {"governance"}
AssetPairChoices == {"ETH/USDT", "BTC/USDT"}
TimeHorizonChoices == {"1h", "7d"}
SliderValues == {0, 100}

\* array.includes(x) and array.filter(y => y # x)
Includes(array, x) == \E i \in 1..Len(array) : array[i] = x
RECURSIVE Without(_, _)
Without(array, x) ==
    IF array = <<>> THEN <<>>
    ELSE IF Head(array) = x THEN Without(Tail(array), x)
    ELSE <<Head(array)>> \o Without(Tail(array), x)

\* setSelectedNetworks(prev => prev.includes(networkId) ? ... : ...)
handleNetworkSelect(a, networkId) ==
    [a EXCEPT !.selectedNetworks =
        IF Includes(a.selectedNetworks, networkId)
        THEN Without(a.selectedNetworks, networkId)
        ELSE Append(a.selectedNetworks, networkId)]
\* setConfig(newConfig); setSelectedNetworks(newConfig.networks)
handleConfigChange(a, newConfig) ==
    [a EXCEPT !.config = newConfig, !.selectedNetworks = newConfig.networks]

\* The user ticks or unticks a network in the panel.
ToggleNetwork ==
    /\ \E networkId \in NetworkIds :
         app' = handleNetworkSelect(app, networkId)
    /\ UNCHANGED <<now, vol, liq, flow, consistency, rebalance, volConfidence, eventForecast, calls, guide, prevGuide, crossFlows, feeds, socket>>

\* addProtocol with newProtocol typed in and not yet in the list
AddProtocol ==
    /\ \E newProtocol \in ProtocolInputs :
         /\ ~Includes(app.config.protocols, newProtocol)
         /\ app' = handleConfigChange(app,
                [app.config EXCEPT !.protocols = Append(@, newProtocol)])
    /\ UNCHANGED <<now, vol, liq, flow, consistency, rebalance, volConfidence, eventForecast, calls, guide, prevGuide, crossFlows, feeds, socket>>

\* removeProtocol(protocol), from the button beside a listed protocol
RemoveProtocol ==
    /\ \E i \in 1..Len(app.config.protocols) :
         /\ app.config.protocols[i] \in {"0x7d27"} \cup ProtocolInputs
         /\ app' = handleConfigChange(app,
                [app.config EXCEPT
                    !.protocols = Without(@, app.config.protocols[i])])
    /\ UNCHANGED <<now, vol, liq, flow, consistency, rebalance, volConfidence, eventForecast, calls, guide, prevGuide, crossFlows, feeds, socket>>

\* handleUpgradeTypeChange(upgradeType, checked), checked being the new
\* state of a box that showed whether the type was in the list
HandleUpgradeTypeChange ==
    /\ \E upgradeType \in ToggledUpgradeTypes :
         app' = handleConfigChange(app,
            [app.config EXCEPT !.upgradeTypes =
                IF ~Includes(app.config.upgradeTypes, upgradeType)
                THEN Append(@, upgradeType)
                ELSE Without(@, upgradeType)])
    /\ UNCHANGED <<now, vol, liq, flow, consistency, rebalance, volConfidence, eventForecast, calls, guide, prevGuide, crossFlows, feeds, socket>>

HandleAssetPairChange ==
    /\ \E assetPair \in AssetPairChoices :
         app' = handleConfigChange(app,
            [app.config EXCEPT !.assetPairs = <<assetPair>>])
    /\ UNCHANGED <<now, vol, liq, flow, consistency, rebalance, volConfidence, eventForecast, calls, guide, prevGuide, crossFlows, feeds, socket>>

HandleTimeHorizonChange ==
    /\ \E horizon \in TimeHorizonChoices :
         app' = handleConfigChange(app,
            [app.config EXCEPT !.timeHorizon = horizon])
    /\ UNCHANGED <<now, vol, liq, flow, consistency, rebalance, volConfidence, eventForecast, calls, guide, prevGuide, crossFlows, feeds, socket>>

\* The onChange of the two sliders.
MoveVolatilitySlider ==
    /\ \E value \in SliderValues :
         app' = handleConfigChange(app,
            [app.config EXCEPT !.riskThresholds.volatility = value])
    /\ UNCHANGED <<now, vol, liq, flow, consistency, rebalance, volConfidence, eventForecast, calls, guide, prevGuide, crossFlows, feeds, socket>>
MoveLiquiditySlider ==
    /\ \E value \in SliderValues :
         app' = handleConfigChange(app,
            [app.config EXCEPT !.riskThresholds.liquidity = value])
    /\ UNCHANGED <<now, vol, liq, flow, consistency, rebalance, volConfidence, eventForecast, calls, guide, prevGuide, crossFlows, feeds, socket>>

InitVol ==
    /\ now = 0
    /\ vol = VolIdle
    /\ liq = LiqIdle
    /\ flow = FlowIdle
    /\ consistency = ConsistencyIdle
    /\ rebalance = RebalanceIdle
    /\ volConfidence = VolConfidenceIdle
    /\ eventForecast = EventForecastIdle
    /\ calls = NoCalls
    /\ guide = GuideIdle
    /\ prevGuide = NoGuide
    /\ crossFlows = CrossFlowsIdle
    /\ feeds = NoFeeds
    /\ socket = NoSocket
    /\ app = AppInitial

NextVol ==
    \/ PredictVolatilityCall
    \/ FitStep
    \/ PredictVolatilityReturn
    \/ VolDone

SpecVol == InitVol /\ [][NextVol]_vars

InitLiq == InitVol
NextLiq ==
    \/ PredictLiquidityFlow
    \/ LiqDone
SpecLiq == InitLiq /\ [][NextLiq]_vars

InitFlow == InitVol
NextFlow ==
    \/ DetermineFlowDirection
    \/ FlowDone
SpecFlow == InitFlow /\ [][NextFlow]_vars

InitGuide == InitVol
NextGuide ==
    \/ Tick
    \/ GenerateExecutionGuidance
    \/ GenerateExecutionGuidanceAgain
    \/ GuideDone
SpecGuide == InitGuide /\ [][NextGuide]_vars

InitConsistency == InitVol
NextConsistency ==
    \/ CalculateRiskConsistency
    \/ ConsistencyDone
SpecConsistency == InitConsistency /\ [][NextConsistency]_vars

InitRebalance == InitVol
NextRebalance ==
    \/ GenerateRebalancingRecommendations
    \/ RebalanceDone
SpecRebalance == InitRebalance /\ [][NextRebalance]_vars

InitConfidence == InitVol
NextConfidence ==
    \/ PredictionConfidence
    \/ VolConfidenceDone
SpecConfidence == InitConfidence /\ [][NextConfidence]_vars

InitEvent == InitVol
NextEvent ==
    \/ GenerateVolatilityPredictions
    \/ EventForecastDone
SpecEvent == InitEvent /\ [][NextEvent]_vars

InitConcurrent == InitVol
NextConcurrent ==
    \/ CallPredictVolatility
    \/ CallFitStep
    \/ CallReturnVolatility
    \/ CallGenerateExecutionGuidance
    \/ CallReturnGuidance
    \/ CallPredictLiquidityFlow
    \/ CallReturnLiquidity
    \/ CallDone
SpecConcurrent == InitConcurrent /\ [][NextConcurrent]_vars

InitCross == InitVol
NextCross ==
    \/ AnalyzeCrossProtocolFlows
    \/ CrossFlowsDone
SpecCross == InitCross /\ [][NextCross]_vars

InitFeeds == InitVol
NextFeeds ==
    \/ GenerateLiveEvent
    \/ GenerateAlert
SpecFeeds == InitFeeds /\ [][NextFeeds]_vars

InitSocket == InitVol
NextSocket ==
    \/ Mount
    \/ OnOpen
    \/ OnClose
    \/ ReconnectTimeout
    \/ Disconnect
    \/ DependencyChange
    \/ Unmount
SpecSocket == InitSocket /\ [][NextSocket]_vars

InitApp == InitVol
NextApp ==
    \/ ToggleNetwork
    \/ AddProtocol
    \/ RemoveProtocol
    \/ HandleUpgradeTypeChange
    \/ HandleAssetPairChange
    \/ HandleTimeHorizonChange
    \/ MoveVolatilitySlider
    \/ MoveLiquiditySlider
SpecApp == InitApp /\ [][NextApp]_vars

---------------------------------------------------------------------------
(* Properties of the volatility and liquidity forecasts                    *)

\* C5: after the 100 refinement steps of fitGARCH the fitted parameters
\* satisfy 0.01 <= alpha <= 0.99, 0.01 <= beta <= 0.99, omega >= 0.001 and
\* alpha + beta < 1, for any return series.
C5_FittedParamsInBounds ==
    (vol.phase = "fitting" /\ vol.iter = FitIterations) =>
        /\ FGe(vol.params.alpha, F(1, -2)) /\ FLe(vol.params.alpha, F(99, -2))
        /\ FGe(vol.params.beta, F(1, -2)) /\ FLe(vol.params.beta, F(99, -2))
        /\ FGe(vol.params.omega, F(1, -3))
        /\ FLt(FAdd(vol.params.alpha, vol.params.beta), Num(1))

\* C6: when the computation inside predictVolatility or predictLiquidityFlow
\* fails, the caller gets an error, never a record of random fields.
C6_FailureIsReported ==
    /\ (vol.phase = "returned" /\ vol.threw) =>
            (vol.settled = "rejected" /\ vol.origin # "random")
    /\ (liq.phase = "returned" /\ liq.threw) =>
            (liq.settled = "rejected" /\ liq.origin # "random")

\* C7: predictVolatility with fewer than 2 prices fails with
\* InsufficientDataError and returns no prediction; with exactly two prices
\* p1, p2 the return series is the one element ln(p2 / p1).
C7_ShortHistoryRejected ==
    (vol.phase = "returned" /\ vol.prices.def) =>
        /\ Len(vol.prices.v) < 2 =>
              (vol.settled = "rejected" /\ vol.error = "InsufficientDataError")
        /\ Len(vol.prices.v) = 2 =>
              vol.returns = <<FLn(FDiv(vol.prices.v[2], vol.prices.v[1]))>>

\* C8: if the fitted parameters satisfy alpha + beta >= 1, predictVolatility
\* fails with ModelInstabilityError and returns no forecast.
C8_UnstableFitRejected ==
    (/\ vol.phase = "returned"
     /\ vol.prices.def
     /\ FGe(FAdd(vol.params.alpha, vol.params.beta), Num(1))) =>
        (vol.settled = "rejected" /\ vol.error = "ModelInstabilityError")

---------------------------------------------------------------------------
(* Properties of the flow direction and of the execution guidance         *)

\* C9: determineFlowDirection(predicted1h, currentTVL) with currentTVL > 0
\* is inflow exactly when the relative change is above +1%, outflow exactly
\* when it is below -1%, stable otherwise (exactly +1% or -1% is stable);
\* from 1000, 1011 is inflow, 989 is outflow and 1005 is stable.  The
\* relative change is compared exactly, in whole numbers.
C9_FlowDirectionThresholds ==
    (flow.phase = "returned" /\ flow.current > 0) =>
        /\ flow.result =
              IF 100 * (flow.predicted - flow.current) > flow.current
              THEN "inflow"
              ELSE IF 100 * (flow.predicted - flow.current) < 0 - flow.current
              THEN "outflow"
              ELSE "stable"
        /\ flow.current = 1000 =>
              /\ flow.predicted = 1011 => flow.result = "inflow"
              /\ flow.predicted = 989 => flow.result = "outflow"
              /\ flow.predicted = 1005 => flow.result = "stable"
              /\ flow.predicted \in {990, 1010} => flow.result = "stable"

\* A change of exactly +1% has been classified.
C9_Witness ==
    /\ flow.phase = "returned"
    /\ flow.current = 1000
    /\ flow.predicted = 1010
    /\ flow.result = "stable"

\* C10: the risk-consistency term lies in [0.3, 1.0] for every risk vector
\* in [0,100]^4 and is 1.0 when the four factors are equal.
C10_ConsistencyBounded ==
    consistency.phase = "returned" =>
        /\ FGe(consistency.result, F(3, -1))
        /\ FLe(consistency.result, Num(1))
        /\ (/\ consistency.risk.technical = consistency.risk.governance
            /\ consistency.risk.governance = consistency.risk.market
            /\ consistency.risk.market = consistency.risk.liquidity)
              => consistency.result = Num(1)

\* Four equal factors other than zero have been scored.
C10_Witness ==
    /\ consistency.phase = "returned"
    /\ consistency.risk.technical = 61
    /\ consistency.risk.governance = 61
    /\ consistency.risk.market = 61
    /\ consistency.risk.liquidity = 61
    /\ consistency.result = Num(1)

\* C4: the four recommended weights of generateRebalancingRecommendations
\* sum to 1 within 1e-9, for every risk assessment with fields in [0,100].
C4_WeightsSumToOne ==
    rebalance.phase = "returned" =>
        /\ Len(rebalance.result) = 4
        /\ \E total \in
              {RatSum([i \in 1..Len(rebalance.result) |->
                          rebalance.result[i].recommendedWeight])} :
              \/ total.n = total.d
              \/ total.d \div Abs(total.n - total.d) >= 10^9

\* Both adjustments applied, so that the weights did not sum to 1 before
\* they were normalised.
C4_Witness ==
    /\ rebalance.phase = "returned"
    /\ rebalance.risk.overall = 100
    /\ rebalance.risk.technical > 60
    /\ rebalance.result[3].recommendedWeight # Rat(4, 10)
    /\ rebalance.result[4].recommendedWeight # Rat(5, 100)

\* C1: the action of generateExecutionGuidance is the one of the scoring
\* rule: +2 below overall risk 30, -2 above 70; -1 when the 24h volatility is
\* above 1.5 times the current one; +1 for inflow, -1 for outflow; +1 for a
\* 24h change above 5, -1 below -5; score >= 2 is buy, score <= -2 is sell,
\* otherwise hedge when overall risk > 60 or 24h volatility > 0.5, else hold.
C1_ActionFollowsScoringRule ==
    (guide.phase = "returned" /\ guide.market.def) =>
        LET score ==
                (IF guide.risk.overall < 30 THEN 2
                 ELSE IF guide.risk.overall > 70 THEN -2 ELSE 0)
              + (IF FGt(guide.vol.predicted24h,
                        FMul(F(15, -1), guide.vol.current)) THEN -1 ELSE 0)
              + (IF guide.liq.flowDirection = "inflow" THEN 1
                 ELSE IF guide.liq.flowDirection = "outflow" THEN -1 ELSE 0)
              + (IF FGt(guide.market.v.change24h, Num(5)) THEN 1
                 ELSE IF FLt(guide.market.v.change24h, Num(-5)) THEN -1
                 ELSE 0)
        IN  /\ score >= 2 => guide.result.action = "buy"
            /\ score <= -2 => guide.result.action = "sell"
            /\ (score > -2 /\ score < 2) =>
                  guide.result.action =
                     IF guide.risk.overall > 60
                        \/ FGt(guide.vol.predicted24h, F(5, -1))
                     THEN "hedge" ELSE "hold"

\* A sell that took precedence over a hedge.
C1_Witness ==
    /\ guide.phase = "returned"
    /\ guide.origin = "computed"
    /\ guide.result.action = "sell"
    /\ guide.risk.overall > 60
    /\ FGt(guide.vol.predicted24h, F(5, -1))

\* C2: two calls of generateExecutionGuidance with the same risk,
\* volatility, liquidity and market inputs return the same action and the
\* same riskMitigation list, whatever the time and the calls before.
C2_SameInputsSameDecision ==
    (/\ guide.phase = "returned"
     /\ prevGuide.called
     /\ prevGuide.risk = guide.risk
     /\ prevGuide.vol = guide.vol
     /\ prevGuide.liq = guide.liq
     /\ prevGuide.market = guide.market) =>
        /\ guide.result.action = prevGuide.action
        /\ guide.result.riskMitigation = prevGuide.riskMitigation

\* The same inputs answered twice by the try block, at two times.
C2_Witness ==
    /\ guide.phase = "returned"
    /\ prevGuide.called
    /\ prevGuide.risk = guide.risk
    /\ prevGuide.vol = guide.vol
    /\ prevGuide.liq = guide.liq
    /\ prevGuide.market = guide.market
    /\ guide.origin = "computed"
    /\ guide.calledAt > prevGuide.calledAt
    /\ guide.result.action = "hedge"

\* C3: with a risk assessment in [0,100], numeric forecasts, a flow
\* direction among inflow, outflow and stable and a market snapshot with a
\* numeric change24h, generateExecutionGuidance completes in its try block
\* and returns an action among buy, sell, hold and hedge.
C3_ValidInputsNormalPath ==
    (guide.phase = "returned" /\ guide.market.def) =>
        /\ ~guide.threw
        /\ guide.origin = "computed"
        /\ guide.settled = "fulfilled"
        /\ guide.result.action \in {"buy", "sell", "hold", "hedge"}

\* Valid inputs answered without a user profile.
C3_Witness ==
    /\ guide.phase = "returned"
    /\ guide.market.def
    /\ ~guide.profile.def
    /\ guide.origin = "computed"
    /\ guide.result.action = "buy"


\* C11: a strictly flat, positive price series gives current = 0 and the
\* three horizon forecasts all equal to sqrt(omega) * eventMultiplier, omega
\* being the fitted parameter returned in garchParams.
C11_FlatSeriesForecast ==
    (/\ vol.phase = "returned"
     /\ vol.prices.def
     /\ Len(vol.prices.v) >= 2
     /\ FGt(vol.prices.v[1], Zero)
     /\ \A i \in 1..Len(vol.prices.v) : vol.prices.v[i] = vol.prices.v[1]) =>
        \E flat \in {FMul(FSqrt(vol.result.garchParams.omega),
                          eventMultiplier(vol.event))} :
            /\ vol.result.current = Zero
            /\ FLe(vol.result.predicted1h, flat)
            /\ FGe(vol.result.predicted1h, flat)
            /\ FLe(vol.result.predicted24h, flat)
            /\ FGe(vol.result.predicted24h, flat)
            /\ FLe(vol.result.predicted7d, flat)
            /\ FGe(vol.result.predicted7d, flat)


\* C13: predictVolatility given a history that contains a price <= 0 fails
\* with a typed input error; it never computes returns or a forecast from
\* such a value.
C13_NonPositivePriceRejected ==
    (/\ vol.prices.def
     /\ \E i \in 1..Len(vol.prices.v) : FLe(vol.prices.v[i], Zero)) =>
        /\ vol.phase = "returned"
        /\ vol.settled = "rejected"
        /\ vol.error = "InvalidInputError"
        /\ vol.returns = <<>>


\* C14: if generateExecutionGuidance cannot compute a recommendation from
\* its inputs (a scoring step throws), the caller gets the error and no
\* recommendation record.
C14_GuidanceErrorSurfaced ==
    (guide.phase = "returned" /\ guide.threw) =>
        /\ guide.settled = "rejected"
        /\ guide.error # "none"
        /\ guide.result = NoGuidance


\* C15: the volatility confidence is max(0.5, 1 - |alpha + beta - 0.95|):
\* for alpha and beta in [0.01, 0.99] it lies in [0.5, 1] and it does not
\* increase when |alpha + beta - 0.95| grows.  The distances are compared
\* exactly, in hundredths.
C15_ConfidenceMonotone ==
    volConfidence.phase = "returned" =>
        /\ \A i \in 1..2 :
              /\ FGe(volConfidence.result[i], F(5, -1))
              /\ FLe(volConfidence.result[i], Num(1))
              /\ \E d \in {Abs(volConfidence.alpha[i] + volConfidence.beta[i] - 95)} :
                    volConfidence.result[i] =
                        F(IF 100 - d > 50 THEN 100 - d ELSE 50, -2)
        /\ Abs(volConfidence.alpha[1] + volConfidence.beta[1] - 95)
              <= Abs(volConfidence.alpha[2] + volConfidence.beta[2] - 95)
           => FGe(volConfidence.result[1], volConfidence.result[2])

\* Two fits on either side of 0.95, the farther one with the lower
\* confidence, above the floor.
C15_Witness ==
    /\ volConfidence.phase = "returned"
    /\ volConfidence.alpha[1] + volConfidence.beta[1] = 92
    /\ volConfidence.alpha[2] + volConfidence.beta[2] = 100
    /\ FGt(volConfidence.result[1], volConfidence.result[2])
    /\ FGt(volConfidence.result[2], F(5, -1))


---------------------------------------------------------------------------
(* Properties of the timing window, the strategies and the weights        *)

\* C16: in every recommendation, optimalTiming.entry - now is 1 hour when
\* vol.predicted1h < vol.current and 0 otherwise, capped to 30 minutes when
\* the flow direction is inflow and the action is buy; hence it is one of 0,
\* 30 minutes and 1 hour, and entry >= now.
C16_EntryDelayRule ==
    guide.phase = "returned" =>
        LET delay == guide.result.optimalTiming.entry - guide.calledAt
            wait == IF FLt(guide.vol.predicted1h, guide.vol.current)
                    THEN 60 * 60 * 1000 ELSE 0
        IN  /\ delay =
                  IF guide.liq.flowDirection = "inflow"
                     /\ guide.result.action = "buy"
                     /\ wait > 30 * 60 * 1000
                  THEN 30 * 60 * 1000 ELSE wait
            /\ delay \in {0, 30 * 60 * 1000, 60 * 60 * 1000}
            /\ guide.result.optimalTiming.entry >= guide.calledAt

\* C17: in every recommendation, optimalTiming.exit - optimalTiming.entry is
\* 7 days for buy, 48 hours for hedge when vol.predicted24h > 0.3, 24 hours
\* for hedge otherwise and for sell and hold; hence exit is later than entry.
C17_ExitDelayRule ==
    guide.phase = "returned" =>
        LET window == guide.result.optimalTiming.exit
                        - guide.result.optimalTiming.entry
        IN  /\ window =
                  IF guide.result.action = "buy" THEN 7 * 24 * 60 * 60 * 1000
                  ELSE IF guide.result.action = "hedge"
                          /\ FGt(guide.vol.predicted24h, F(3, -1))
                  THEN 48 * 60 * 60 * 1000
                  ELSE 24 * 60 * 60 * 1000
            /\ guide.result.optimalTiming.exit
                  > guide.result.optimalTiming.entry

\* C18: riskMitigation begins with the two baseline strategies, followed in
\* this order by one pair of strategies for each condition that holds:
\* vol.predicted24h > 0.3, risk.governance > 60, risk.liquidity > 60,
\* risk.technical > 60, action = hedge; its length is 2 + 2 * (number of
\* conditions that hold).
C18_MitigationListRule ==
    guide.phase = "returned" =>
        LET holds == <<FGt(guide.vol.predicted24h, F(3, -1)),
                       guide.risk.governance > 60,
                       guide.risk.liquidity > 60,
                       guide.risk.technical > 60,
                       guide.result.action = "hedge">>
            pairs == <<
                <<"Use smaller position sizes due to high volatility",
                  "Consider options strategies for volatility hedging">>,
                <<"Monitor governance proposals closely",
                  "Prepare for potential governance-driven price movements">>,
                <<"Ensure sufficient liquidity buffers",
                  "Consider staggered entry/exit strategies">>,
                <<"Review smart contract audit reports",
                  "Monitor protocol upgrade implementations">>,
                <<"Use correlated assets for hedging",
                  "Consider derivatives for downside protection">> >>
            part(i) == IF holds[i] THEN pairs[i] ELSE <<>>
        IN  /\ guide.result.riskMitigation =
                  <<"Implement stop-loss orders at 5-10% below entry",
                    "Monitor market conditions every 4 hours">>
                  \o part(1) \o part(2) \o part(3) \o part(4) \o part(5)
            /\ Len(guide.result.riskMitigation) =
                  2 + 2 * Cardinality({i \in 1..5 : holds[i]})


\* C19: in the rebalancing of generateRebalancingRecommendations the stable
\* asset's recommendedWeight is at most 0.5 and the protocol token's is at
\* least 0.05, for every risk assessment with fields in [0,100].
C19_WeightCaps ==
    rebalance.phase = "returned" =>
        \A i \in 1..Len(rebalance.result) :
            /\ rebalance.result[i].asset = "USDC" =>
                  RatLe(rebalance.result[i].recommendedWeight, Rat(1, 2))
            /\ rebalance.result[i].asset = "PROTOCOL_TOKEN" =>
                  RatLe(Rat(5, 100), rebalance.result[i].recommendedWeight)


\* C20: each of the three horizon forecasts computed with an upgrade event
\* is the forecast computed without one multiplied by
\* 1 + (riskScore / 100) * 0.5; without an event the multiplier is 1; for a
\* riskScore in [0,100] the multiplier lies in [1, 1.5], and riskScore 0
\* changes nothing.  A forecast that is not a number stays not a number.
C20_EventMultiplierRule ==
    eventForecast.phase = "returned" =>
        \E r \in 0..100 :
            /\ eventForecast.event.def =>
                  eventForecast.event.v.riskScore = Num(r)
            /\ ~eventForecast.event.def => r = 0
            /\ \E mult \in {FDiv(Num(200 + r), Num(200))} :
                  /\ FGe(mult, Num(1)) /\ FLe(mult, F(15, -1))
                  /\ r = 0 => mult = Num(1)
                  /\ eventForecast.withEvent.h1 =
                        FMul(eventForecast.withoutEvent.h1, mult)
                  /\ eventForecast.withEvent.d1 =
                        FMul(eventForecast.withoutEvent.d1, mult)
                  /\ eventForecast.withEvent.d7 =
                        FMul(eventForecast.withoutEvent.d7, mult)
                  /\ r = 0 =>
                        /\ eventForecast.withEvent.h1 = eventForecast.withoutEvent.h1
                        /\ eventForecast.withEvent.d1 = eventForecast.withoutEvent.d1
                        /\ eventForecast.withEvent.d7 = eventForecast.withoutEvent.d7

\* An event of risk score 33 has scaled three finite forecasts by 1.165.
C20_Witness ==
    /\ eventForecast.phase = "returned"
    /\ eventForecast.event.def
    /\ eventForecast.event.v.riskScore = Num(33)
    /\ IsFinite(eventForecast.withoutEvent.d1)
    /\ FGt(eventForecast.withoutEvent.d1, Zero)
    /\ FGt(eventForecast.withEvent.h1, eventForecast.withoutEvent.h1)
    /\ FGt(eventForecast.withEvent.d1, eventForecast.withoutEvent.d1)
    /\ FGt(eventForecast.withEvent.d7, eventForecast.withoutEvent.d7)


---------------------------------------------------------------------------
(* Properties of concurrent calls                                          *)

---------------------------------------------------------------------------
(* Properties of the liquidity forecast                                    *)

\* C21: predictLiquidityFlow called with an empty TVL history does not
\* fail: it returns through the normal path a prediction with
\* currentTVL = 0 and predictedTVL1h = predictedTVL24h = predictedTVL7d = 0,
\* with or without an upgrade event.
C21_EmptyHistoryIsZero ==
    (liq.phase = "returned" /\ liq.history.def /\ Len(liq.history.v) = 0) =>
        /\ ~liq.threw
        /\ liq.settled = "fulfilled"
        /\ liq.origin = "computed"
        /\ liq.result.currentTVL = Zero
        /\ liq.result.predictedTVL1h = Zero
        /\ liq.result.predictedTVL24h = Zero
        /\ liq.result.predictedTVL7d = Zero

\* An empty history was passed together with an upgrade event.
C21_Witness ==
    /\ liq.phase = "returned"
    /\ liq.history.def
    /\ Len(liq.history.v) = 0
    /\ liq.event.def
    /\ liq.origin = "computed"
    /\ liq.result.predictedTVL7d = Zero

\* C22: for every TVL history of positive values the confidence returned
\* by the normal path of predictLiquidityFlow equals
\* max(0.4, 1 - volatility * 10) and lies in [0.4, 1]; with fewer than 2
\* points the volatility is 0.01 and the confidence is 0.9.
C22_LiquidityConfidenceRange ==
    (liq.phase = "returned" /\ liq.origin = "computed") =>
        /\ FGe(liq.result.confidence, F(4, -1))
        /\ FLe(liq.result.confidence, Num(1))
        /\ \/ /\ FGe(FSub(Num(1), FMul(liq.volatility, Num(10))), F(4, -1))
              /\ liq.result.confidence =
                    FSub(Num(1), FMul(liq.volatility, Num(10)))
           \/ /\ FLe(FSub(Num(1), FMul(liq.volatility, Num(10))), F(4, -1))
              /\ liq.result.confidence = F(4, -1)
        /\ Len(liq.history.v) < 2 =>
              /\ liq.volatility = F(1, -2)
              /\ liq.result.confidence = F(9, -1)


\* C30: for a constant positive TVL history of at least 3 points and no
\* upgrade event, predictedTVL1h is currentTVL times the seasonality
\* multiplier (1.155, 1.045, 0.945 or 0.855, by the hour and the weekday of
\* the evaluation), so flowDirection is inflow when the multiplier exceeds
\* 1, outflow when it is below 1, and never stable.
C30_ConstantHistoryFollowsSeason ==
    (/\ liq.phase = "returned"
     /\ liq.origin = "computed"
     /\ ~liq.event.def
     /\ Len(liq.history.v) >= 3
     /\ \A i \in 1..Len(liq.history.v) :
           /\ liq.history.v[i].tvl = liq.history.v[1].tvl
           /\ FGt(liq.history.v[i].tvl, Zero)) =>
        \E mult \in {IF liq.hourOfDay \in 8..20
                     THEN (IF liq.dayOfWeek \in 1..5 THEN F(1155, -3)
                           ELSE F(1045, -3))
                     ELSE (IF liq.dayOfWeek \in 1..5 THEN F(945, -3)
                           ELSE F(855, -3))} :
            /\ liq.result.currentTVL = liq.history.v[1].tvl
            /\ liq.result.predictedTVL1h = FMul(liq.result.currentTVL, mult)
            /\ FGt(mult, Num(1)) => liq.result.flowDirection = "inflow"
            /\ FLt(mult, Num(1)) => liq.result.flowDirection = "outflow"
            /\ liq.result.flowDirection # "stable"

\* A constant history was evaluated on a weekday night: multiplier 0.945,
\* outflow.
C30_Witness ==
    /\ liq.phase = "returned"
    /\ liq.origin = "computed"
    /\ ~liq.event.def
    /\ Len(liq.history.v) >= 3
    /\ \A i \in 1..Len(liq.history.v) : liq.history.v[i].tvl = Num(1000)
    /\ liq.hourOfDay = 21
    /\ liq.dayOfWeek = 1
    /\ liq.result.predictedTVL1h = Num(945)
    /\ liq.result.flowDirection = "outflow"


---------------------------------------------------------------------------
(* Safety of the decision                                                  *)

\* C25: the decision engine never recommends buy when risk.overall > 70 and
\* never recommends sell when risk.overall < 30, for any volatility
\* forecast, flow direction and market change.
C25_NoBuyAtHighRiskNoSellAtLowRisk ==
    guide.phase = "returned" =>
        /\ guide.risk.overall > 70 => guide.result.action # "buy"
        /\ guide.risk.overall < 30 => guide.result.action # "sell"

\* At overall risk 71 every other signal pointed up (inflow, the market up
\* by 6 %, no rise of volatility) and the engine answered hedge, not buy.
C25_Witness ==
    /\ guide.phase = "returned"
    /\ guide.origin = "computed"
    /\ guide.risk.overall = 71
    /\ guide.liq.flowDirection = "inflow"
    /\ guide.market.def
    /\ guide.market.v.change24h = Num(6)
    /\ VolatilityImpact(guide.vol) = 0
    /\ guide.result.action = "hedge"


---------------------------------------------------------------------------
(* Numerical properties of the volatility forecast                         *)

\* C29: for every price history of at least 3 positive prices and fitted
\* parameters with alpha + beta < 1, predicted1h, predicted24h and
\* predicted7d are non-negative numbers: no square root of
\* generateVolatilityPredictions is taken of a negative argument.
C29_ForecastsAreNumbers ==
    (/\ vol.phase = "returned"
     /\ vol.origin = "computed"
     /\ Len(vol.prices.v) >= 3
     /\ \A i \in 1..Len(vol.prices.v) : FGt(vol.prices.v[i], Zero)
     /\ FLt(FAdd(vol.result.garchParams.alpha, vol.result.garchParams.beta),
            Num(1))) =>
        /\ FGe(vol.result.predicted1h, Zero)
        /\ FGe(vol.result.predicted24h, Zero)
        /\ FGe(vol.result.predicted7d, Zero)


---------------------------------------------------------------------------
(* Properties of the cross-protocol flows                                  *)

\* C23: analyzeCrossProtocolFlows over n distinct protocol names returns
\* exactly min(10, n * (n - 1)) flows, each between two different
\* protocols, ordered by non-increasing amount, each one of the flows
\* pushed, and every returned amount is at least the amount of every
\* ordered pair that was left out.
C23_TopTenFlows ==
    crossFlows.phase = "returned" =>
        /\ Len(crossFlows.result) =
              (IF PairCount(Len(crossFlows.protocols)) < 10
               THEN PairCount(Len(crossFlows.protocols)) ELSE 10)
        /\ \A i \in 1..Len(crossFlows.result) :
              /\ crossFlows.result[i].from # crossFlows.result[i].to
              /\ \E k \in 1..Len(crossFlows.pushed) :
                    crossFlows.pushed[k] = crossFlows.result[i]
              /\ \A j \in 1..Len(crossFlows.result) :
                    i < j =>
                       /\ FGe(crossFlows.result[i].amount,
                              crossFlows.result[j].amount)
                       /\ \/ crossFlows.result[i].from # crossFlows.result[j].from
                          \/ crossFlows.result[i].to # crossFlows.result[j].to
        /\ \A k \in 1..Len(crossFlows.pushed) :
              (\A i \in 1..Len(crossFlows.result) :
                    crossFlows.result[i] # crossFlows.pushed[k]) =>
                 \A i \in 1..Len(crossFlows.result) :
                    FGe(crossFlows.result[i].amount,
                        crossFlows.pushed[k].amount)

\* Twelve flows over four protocols were cut to ten: the flows pushed were
\* not in order, the flows returned hold two different amounts, and a flow
\* left out is smaller than every flow returned.
C23_Witness ==
    /\ crossFlows.phase = "returned"
    /\ Len(crossFlows.protocols) = 4
    /\ Len(crossFlows.result) = 10
    /\ FLt(crossFlows.pushed[1].amount, crossFlows.pushed[2].amount)
    /\ FGt(crossFlows.result[1].amount, crossFlows.result[10].amount)
    /\ \E k \in 1..12 :
          FLt(crossFlows.pushed[k].amount, crossFlows.result[10].amount)


---------------------------------------------------------------------------
(* Properties of the panels                                                *)

\* C24: after any sequence of generated events the live-event list holds at
\* most 10 entries and the alert list at most 5; each new entry is put at
\* the front, the entries behind it keep their order, and when the list is
\* full exactly the oldest entry is dropped.
C24_FeedsBounded ==
    [][/\ Len(feeds'.liveEvents) <= 10
       /\ Len(feeds'.alerts) <= 5
       /\ feeds'.generated # feeds.generated =>
             /\ Head(feeds'.liveEvents).id = feeds'.generated
             /\ Len(feeds'.liveEvents) =
                   (IF Len(feeds.liveEvents) = 10 THEN 10
                    ELSE Len(feeds.liveEvents) + 1)
             /\ \A i \in 2..Len(feeds'.liveEvents) :
                   feeds'.liveEvents[i] = feeds.liveEvents[i - 1]
       /\ feeds'.raised # feeds.raised =>
             /\ Head(feeds'.alerts).id = feeds'.raised
             /\ Len(feeds'.alerts) =
                   (IF Len(feeds.alerts) = 5 THEN 5
                    ELSE Len(feeds.alerts) + 1)
             /\ \A i \in 2..Len(feeds'.alerts) :
                   feeds'.alerts[i] = feeds.alerts[i - 1]]_vars

\* Twelve events and seven alerts were generated: both lists are full, the
\* newest entries are in front and the two oldest of each are gone.
C24_Witness ==
    /\ feeds.generated = 12
    /\ Len(feeds.liveEvents) = 10
    /\ feeds.liveEvents[1].id = 12
    /\ feeds.liveEvents[10].id = 3
    /\ feeds.raised = 7
    /\ Len(feeds.alerts) = 5
    /\ feeds.alerts[1].id = 7
    /\ feeds.alerts[5].id = 3


---------------------------------------------------------------------------
(* Properties of the reconnecting socket                                   *)

\* C26: the reconnect-attempt counter never exceeds maxReconnectAttempts;
\* it is reset to 0 each time a connection opens; and once
\* maxReconnectAttempts close events have come with no open event in
\* between, no step sets a reconnect timeout any more.
C26_ReconnectAttemptsBounded ==
    [][/\ socket'.reconnectAttempts <= maxReconnectAttempts
       /\ OpenSockets(socket') > OpenSockets(socket) =>
             socket'.reconnectAttempts = 0
       /\ socket.closes >= maxReconnectAttempts =>
             PendingTimeouts(socket') <= PendingTimeouts(socket)]_vars

\* The first connection and the five that the timeouts made have all
\* closed without opening: the counter is at 5 and the sixth close event
\* has set no timeout.
C26_Witness ==
    /\ socket.mounted
    /\ ~socket.disconnected
    /\ socket.made = maxReconnectAttempts + 1
    /\ socket.closes = maxReconnectAttempts + 1
    /\ socket.reconnectAttempts = maxReconnectAttempts
    /\ Connections(socket) = 0
    /\ PendingTimeouts(socket) = 0

\* C27: after disconnect() has run (called by the user, or by the cleanup
\* of the effect on unmount or on a dependency change) the reconnect logic
\* of the socket that was closed never makes a new WebSocket: no timeout
\* set by its onclose is pending, no socket made by such a timeout exists,
\* and at most one connection, the one of the current effect, exists or is
\* scheduled (none once the component is unmounted).
C27_NoReconnectAfterDisconnect ==
    socket.disconnected =>
        /\ OrphanTimeouts(socket) = 0
        /\ OrphanConnections(socket) = 0
        /\ Connections(socket) + PendingTimeouts(socket) <= 1
        /\ ~socket.mounted =>
              Connections(socket) + PendingTimeouts(socket) = 0


\* C28: a configuration change made in the NetworkMonitor panel that does
\* not concern networks (a protocol added or removed, an upgrade type
\* toggled, an asset pair or a time horizon chosen, a risk threshold moved)
\* leaves the set of selected networks of App unchanged, after any sequence
\* of network toggles.
C28_ConfigChangeKeepsNetworks ==
    [][app'.config # app.config =>
          {app'.selectedNetworks[i] : i \in 1..Len(app'.selectedNetworks)}
          = {app.selectedNetworks[i] : i \in 1..Len(app.selectedNetworks)}]_vars

============================================================================
